---- MODULE Spec2Model ----
(***************************************************************************)
(* Verification model of lazylab (EspenTeigen/lazylab).                    *)
(*                                                                         *)
(* Parts of the program are modelled, each with its own specification     *)
(* over the same variables:                                                *)
(*   SpecRetry   gitlab.Client.get / doWithRetry (retry and backoff)       *)
(*   SpecEnrich  MainScreen.loadProjectContentForBranch / fetchLastCommits *)
(*   Spec        MainScreen.Update and the key handlers (pipeline loop)    *)
(*   SpecJobLog  MainScreen.Update and handleJobLogPopup (job-log loop)    *)
(*   SpecMerge   MainScreen.Update, the pipelinesRefreshedMsg merge        *)
(*   SpecLoop    MainScreen.Update, the pipeline loop with an idle user    *)
(*   SpecPopup   SpecJobLog over fixed answers of the remote service      *)
(* A part that a specification does not exercise stays in its idle state.  *)
(***************************************************************************)
EXTENDS Integers, Sequences, FiniteSets, Bags, TLC

(***************************************************************************)
(* Program constants (internal/config).                                    *)
(***************************************************************************)
MaxRetries == 3
InitialBackoff == 500
MaxBackoff == 5000
RateLimitStatus == 429
ServerErrorMin == 500
StatusOK == 200

(***************************************************************************)
(* Part 1: gitlab.Client.get and doWithRetry.                              *)
(***************************************************************************)
VARIABLES
    rpc,        \* position inside get/doWithRetry
    attempt,    \* loop variable of doWithRetry
    backoff,    \* current backoff in milliseconds
    lastErr,    \* lastErr of doWithRetry
    sleeps,     \* history: the durations slept so far, in order
    outcomes,   \* history: the outcome of every httpClient.Do so far
    resp,       \* the response doWithRetry returned (status 0: nil)
    getErr      \* the error get returned

retryVars == <<rpc, attempt, backoff, lastErr, sleeps, outcomes, resp, getErr>>

\* HTTP statuses the remote service is taken to answer with.
Statuses == {200, 401, 404, 429, 500, 503}

\* Outcome of one httpClient.Do: a transport error, or a response with a status.
Outcomes == {[err |-> TRUE, status |-> 0]} \cup
            {[err |-> FALSE, status |-> s] : s \in Statuses}

\* Errors are kept structured: the format string, and the values it embeds.
NoErr == [text |-> "nil", status |-> 0, attempt |-> 0, of |-> 0]
RequestFailed(a) == [text |-> "request failed (attempt %d/%d)", status |-> 0,
                     attempt |-> a + 1, of |-> MaxRetries + 1]
ApiErrorAttempt(s, a) == [text |-> "API error %d (attempt %d/%d)", status |-> s,
                          attempt |-> a + 1, of |-> MaxRetries + 1]
ApiError(s) == [text |-> "API error %d", status |-> s, attempt |-> 0, of |-> 0]
DecodeError == [text |-> "decoding response", status |-> 0, attempt |-> 0, of |-> 0]

\* The dynamic type of an error value, which is all a caller can switch on:
\* fmt.Errorf gives *fmt.wrapError when the format has a %w verb and the
\* result of errors.New otherwise.
ErrorType(e) ==
    CASE e.text = "nil" -> "nil"
      [] e.text = "request failed (attempt %d/%d)" -> "*fmt.wrapError"
      [] e.text = "decoding response" -> "*fmt.wrapError"
      [] e.text = "API error %d (attempt %d/%d)" -> "*errors.errorString"
      [] e.text = "API error %d" -> "*errors.errorString"

NilResp == [status |-> 0]

\* Variant: every status from 400 up counts as retryable.
isRetryableStatusFrom400(statusCode) == statusCode >= 400

\* Variant: the rate-limit status is not retried.
isRetryableStatusNoRateLimit(statusCode) == statusCode >= ServerErrorMin

isRetryableStatus(statusCode) ==
    statusCode >= ServerErrorMin \/ statusCode = RateLimitStatus

\* Variant: the loop stops one attempt earlier.
RetryLoopCondShort(a) == a < MaxRetries

\* The loop condition of doWithRetry.
RetryLoopCond(a) == a <= MaxRetries

\* Variant: the backoff grows by InitialBackoff instead of doubling.
NextBackoffLinear(b) ==
    IF b + InitialBackoff > MaxBackoff THEN MaxBackoff ELSE b + InitialBackoff

\* backoff *= 2, capped at MaxBackoff.
NextBackoff(b) == IF b * 2 > MaxBackoff THEN MaxBackoff ELSE b * 2

InitRetryIdle ==
    /\ rpc = "idle"
    /\ attempt = 0
    /\ backoff = InitialBackoff
    /\ lastErr = NoErr
    /\ sleeps = <<>>
    /\ outcomes = <<>>
    /\ resp = NilResp
    /\ getErr = NoErr

\* get builds the request and enters doWithRetry: lastErr nil, backoff initial,
\* attempt 0.
InitRetry ==
    /\ rpc = "loop"
    /\ attempt = 0
    /\ backoff = InitialBackoff
    /\ lastErr = NoErr
    /\ sleeps = <<>>
    /\ outcomes = <<>>
    /\ resp = NilResp
    /\ getErr = NoErr

\* Top of the loop body: before a retry (attempt > 0) sleep for the current
\* backoff and double it; the request context is never cancelled.
RetrySleep ==
    /\ rpc = "loop"
    /\ RetryLoopCond(attempt)
    /\ IF attempt > 0
          THEN /\ sleeps' = Append(sleeps, backoff)
               /\ backoff' = NextBackoff(backoff)
          ELSE UNCHANGED <<sleeps, backoff>>
    /\ rpc' = "do"
    /\ UNCHANGED <<attempt, lastErr, outcomes, resp, getErr>>

\* Variant: lastErr keeps the error of the first failed attempt.
RetryDoKeepsFirstErr ==
    /\ rpc = "do"
    /\ \E o \in Outcomes :
        /\ outcomes' = Append(outcomes, o)
        /\ IF o.err \/ isRetryableStatus(o.status)
              THEN /\ lastErr' = IF lastErr # NoErr THEN lastErr
                                 ELSE IF o.err THEN RequestFailed(attempt)
                                 ELSE ApiErrorAttempt(o.status, attempt)
                   /\ attempt' = attempt + 1
                   /\ rpc' = "loop"
                   /\ UNCHANGED resp
              ELSE /\ resp' = [status |-> o.status]
                   /\ rpc' = "returned"
                   /\ UNCHANGED <<lastErr, attempt>>
    /\ UNCHANGED <<backoff, sleeps, getErr>>

\* httpClient.Do and the handling of its outcome.
RetryDo ==
    /\ rpc = "do"
    /\ \E o \in Outcomes :
        /\ outcomes' = Append(outcomes, o)
        /\ IF o.err
              THEN /\ lastErr' = RequestFailed(attempt)
                   /\ attempt' = attempt + 1
                   /\ rpc' = "loop"
                   /\ UNCHANGED resp
              ELSE IF ~isRetryableStatus(o.status)
                      THEN /\ resp' = [status |-> o.status]
                           /\ rpc' = "returned"
                           /\ UNCHANGED <<lastErr, attempt>>
                      ELSE /\ lastErr' = ApiErrorAttempt(o.status, attempt)
                           /\ attempt' = attempt + 1
                           /\ rpc' = "loop"
                           /\ UNCHANGED resp
    /\ UNCHANGED <<backoff, sleeps, getErr>>

\* The loop ends without a response: return nil, lastErr; get passes it on.
RetryExhausted ==
    /\ rpc = "loop"
    /\ ~RetryLoopCond(attempt)
    /\ resp' = NilResp
    /\ getErr' = lastErr
    /\ rpc' = "done"
    /\ UNCHANGED <<attempt, backoff, lastErr, sleeps, outcomes>>

\* get with a response in hand: a status other than 200 is an error that
\* embeds the status; otherwise the body is decoded, which may fail.
GetFinish ==
    /\ rpc = "returned"
    /\ IF resp.status # StatusOK
          THEN getErr' = ApiError(resp.status)
          ELSE \E decoded \in BOOLEAN :
                  getErr' = IF decoded THEN NoErr ELSE DecodeError
    /\ rpc' = "done"
    /\ UNCHANGED <<attempt, backoff, lastErr, sleeps, outcomes, resp>>

NextRetryPart == RetrySleep \/ RetryDo \/ RetryExhausted \/ GetFinish

(***************************************************************************)
(* Part 2: MainScreen.loadProjectContentForBranch and fetchLastCommits.    *)
(***************************************************************************)
VARIABLES
    lpc,        \* position of the load command: getTree, spawn, wait, readme, done
    entries,    \* the []gitlab.TreeEntry shared by the workers
    i,          \* loop variable of the spawning loop in fetchLastCommits
    sem,        \* number of tokens held in the channel sem
    wg,         \* counter of the sync.WaitGroup
    wpc,        \* position of each worker goroutine: acquire, call, done
    failing,    \* the paths for which the remote service fails the commit lookup
    loadMsg     \* the message the load command returned

enrichVars == <<lpc, entries, i, sem, wg, wpc, failing, loadMsg>>

\* Capacity of the channel sem.
SemCap == 10

\* Lists of 0..MaxEntries entries are explored with every set of failing
\* paths; one list of SemCap + Overload entries, the lookups of whose odd
\* paths fail, makes the semaphore bind.
MaxEntries == 3
Overload == 1

EntryCounts == (0..MaxEntries) \cup {SemCap + Overload}

FailChoices(n) ==
    IF n <= MaxEntries
       THEN SUBSET (1..n)
       ELSE {{k \in 1..n : k % 2 = 1}}

\* The tree GetTree returns: n entries with distinct paths, no commit yet.
Tree(n) == [k \in 1..n |-> [Path |-> k, LastCommit |-> 0]]

\* GetLastCommitForPath: a commit for the path, or an error.
GetLastCommitForPath(path) ==
    IF path \in failing
       THEN [commit |-> 0, err |-> TRUE]
       ELSE [commit |-> path, err |-> FALSE]

\* Variant: the send proceeds only when the channel is empty.
SemCanSendEmpty(s) == s = 0

\* Variant: the send proceeds with a full buffer too.
SemCanSendFull(s) == s <= SemCap

\* sem <- struct{}{} can proceed while the channel buffer is not full.
SemCanSend(s) == s < SemCap

\* Variant: the commit is stored in the first entry.
StoreWrongIdx(es, idx, res) ==
    IF ~res.err /\ res.commit # 0
       THEN [es EXCEPT ![1].LastCommit = res.commit]
       ELSE es

\* Variant: the commit is stored in the last entry, whichever worker has it.
StoreLastCommitAtLast(es, idx, res) ==
    IF ~res.err /\ res.commit # 0
       THEN [es EXCEPT ![Len(es)].LastCommit = res.commit]
       ELSE es

\* if err == nil && commit != nil { entries[idx].LastCommit = commit }
StoreLastCommit(es, idx, res) ==
    IF ~res.err /\ res.commit # 0
       THEN [es EXCEPT ![idx].LastCommit = res.commit]
       ELSE es

InFlight == {k \in DOMAIN wpc : wpc[k] = "call"}

InitEnrichIdle ==
    /\ lpc = "idle"
    /\ entries = <<>>
    /\ i = 0
    /\ sem = 0
    /\ wg = 0
    /\ wpc = <<>>
    /\ failing = {}
    /\ loadMsg = "none"

\* The command returned by loadProjectContentForBranch starts running.
InitEnrich ==
    /\ lpc = "getTree"
    /\ entries = <<>>
    /\ i = 0
    /\ sem = 0
    /\ wg = 0
    /\ wpc = <<>>
    /\ failing = {}
    /\ loadMsg = "none"

\* GetTree fails: the command returns errMsg.
LoadGetTreeFails ==
    /\ lpc = "getTree"
    /\ loadMsg' = "errMsg"
    /\ lpc' = "done"
    /\ UNCHANGED <<entries, i, sem, wg, wpc, failing>>

\* GetTree succeeds and fetchLastCommits is entered; it returns at once on an
\* empty list.
LoadGetTreeOf(n, f) ==
    /\ lpc = "getTree"
    /\ entries' = Tree(n)
    /\ failing' = f
    /\ wpc' = [k \in 1..n |-> "none"]
    /\ IF n = 0
          THEN lpc' = "readme" /\ i' = 0
          ELSE lpc' = "spawn" /\ i' = 1
    /\ UNCHANGED <<sem, wg, loadMsg>>

LoadGetTree ==
    \E n \in EntryCounts : \E f \in FailChoices(n) : LoadGetTreeOf(n, f)

\* One iteration of the spawning loop: wg.Add(1); go func(idx){...}(i).
Spawn ==
    /\ lpc = "spawn"
    /\ wg' = wg + 1
    /\ wpc' = [wpc EXCEPT ![i] = "acquire"]
    /\ i' = i + 1
    /\ lpc' = IF i = Len(entries) THEN "wait" ELSE "spawn"
    /\ UNCHANGED <<entries, sem, failing, loadMsg>>

\* A worker passes sem <- struct{}{} and starts its lookup.
WorkerAcquire(idx) ==
    /\ wpc[idx] = "acquire"
    /\ SemCanSend(sem)
    /\ sem' = sem + 1
    /\ wpc' = [wpc EXCEPT ![idx] = "call"]
    /\ UNCHANGED <<lpc, entries, i, wg, failing, loadMsg>>

\* Variant: the worker returns without receiving from sem.
WorkerFinishKeepsToken(idx) ==
    /\ wpc[idx] = "call"
    /\ entries' = StoreLastCommit(entries, idx,
                                  GetLastCommitForPath(entries[idx].Path))
    /\ wg' = wg - 1
    /\ wpc' = [wpc EXCEPT ![idx] = "done"]
    /\ UNCHANGED <<lpc, i, sem, failing, loadMsg>>

\* The lookup of a worker returns; the worker stores the commit, then its
\* deferred calls run: <-sem and wg.Done().
WorkerFinish(idx) ==
    /\ wpc[idx] = "call"
    /\ entries' = StoreLastCommit(entries, idx,
                                  GetLastCommitForPath(entries[idx].Path))
    /\ sem' = sem - 1
    /\ wg' = wg - 1
    /\ wpc' = [wpc EXCEPT ![idx] = "done"]
    /\ UNCHANGED <<lpc, i, failing, loadMsg>>

\* wg.Wait() returns once the counter is zero; fetchLastCommits returns.
WaitReturns ==
    /\ lpc = "wait"
    /\ wg = 0
    /\ lpc' = "readme"
    /\ UNCHANGED <<entries, i, sem, wg, wpc, failing, loadMsg>>

\* The README lookup (its error is ignored) and the return of the command.
LoadReturn ==
    /\ lpc = "readme"
    /\ loadMsg' = "projectContentMsg"
    /\ lpc' = "done"
    /\ UNCHANGED <<entries, i, sem, wg, wpc, failing>>

\* The trees of the termination analysis: none, fewer entries than the
\* channel holds, exactly as many, and more; the lookups of the odd paths
\* fail.
LiveEntryCounts == {0, 1, SemCap, SemCap + 1}

LiveFailing(n) == {k \in 1..n : k % 2 = 1}

LoadGetTreeLive == \E n \in LiveEntryCounts : LoadGetTreeOf(n, LiveFailing(n))

NextEnrichLivePart ==
    \/ LoadGetTreeFails
    \/ LoadGetTreeLive
    \/ Spawn
    \/ \E idx \in DOMAIN wpc : WorkerAcquire(idx)
    \/ \E idx \in DOMAIN wpc : WorkerFinish(idx)
    \/ WaitReturns
    \/ LoadReturn

NextEnrichPart ==
    \/ LoadGetTreeFails
    \/ LoadGetTree
    \/ Spawn
    \/ \E idx \in DOMAIN wpc : WorkerAcquire(idx)
    \/ \E idx \in DOMAIN wpc : WorkerFinish(idx)
    \/ WaitReturns
    \/ LoadReturn


(***************************************************************************)
(* Part 3: MainScreen.Update, the key handlers and the commands they       *)
(* dispatch.  The program runs in normal mode (isDemo is false) with a      *)
(* client.  A command, once dispatched, runs in its own goroutine and its  *)
(* message reaches Update at some later point, in any order; a timer       *)
(* (tea.Tick) is a command as well.  Not modelled: rendering, the README    *)
(* panel, the branch, release and folder popups, opening files and         *)
(* directories, and the map pipelineJobs with its loadPipelineJobsForList   *)
(* commands, whose message writes nothing but that map.                    *)
(***************************************************************************)
VARIABLES
    treeNodes,          \* navigator tree: "empty", "groups" or "projects"
    focusedPanel,
    contentTab,
    selectedProject,    \* id of the selected project, 0 for nil
    files,
    mergeRequests,
    pipelines,          \* the pipelines, by ID
    releases,
    selectedContent,
    fileScrollOffset,
    height,             \* terminal height; 0 until a tea.WindowSizeMsg arrives
    loading,
    lastError,
    retryCmd,
    cmds,               \* bag of the commands in flight, timers included
    lastMsg,            \* history: the message Update handled last
    mergedFrom          \* history: list and selection the last merge started
                        \* from, and the list its message carried

pipeVars == <<treeNodes, focusedPanel, contentTab, selectedProject, files,
              mergeRequests, pipelines, releases, selectedContent,
              fileScrollOffset, height, loading, lastError, retryCmd>>

TabFiles == 0
TabMRs == 1
TabPipelines == 2
TabReleases == 3
StatusBarHeight == 1

\* Bounds of the exploration.
MaxLoopID == 2          \* pipeline IDs 1..MaxLoopID in Spec
MaxPipelineID == 3      \* pipeline IDs 1..MaxPipelineID in SpecMerge
MaxCmds == 2            \* commands in flight before the user waits

Projects == {1, 2}

\* The lists ListPipelines can answer with, over the IDs 1..n: distinct
\* positive IDs in any order.
ListsOver(n) ==
    {q \in UNION {[1..m -> 1..n] : m \in 0..n} :
        \A a, b \in DOMAIN q : a # b => q[a] # q[b]}
LoopLists == ListsOver(MaxLoopID)
PipelineLists == ListsOver(MaxPipelineID)

\* The lists the other list operations can answer with.
ItemLists == {<<>>, <<1, 2>>}

\* A command: what it fetches and the arguments its closure captured.  The
\* field left is history: the Pipelines view was left after the dispatch.
Cmd(kind, project, arg) ==
    [kind |-> kind, project |-> project, arg |-> arg, left |-> FALSE]
NilCmd == Cmd("nil", 0, 0)

\* tea.Batch: the bag of the non-nil commands among cs.
Batch(cs) == SetToBag({c \in cs : c.kind # "nil"})

InFlightCmds == BagToSet(cmds)
Count(kind) ==
    LET S == {c \in InFlightCmds : c.kind = kind}
        RECURSIVE Sum(_)
        Sum(T) == IF T = {} THEN 0
                  ELSE LET c == CHOOSE x \in T : TRUE
                       IN CopiesIn(c, cmds) + Sum(T \ {c})
    IN Sum(S)

\* History: every refreshPipelines in flight is marked once the Pipelines
\* view is no longer shown.
MarkLeft(b, tab) ==
    IF tab = TabPipelines THEN b
    ELSE LET M(c) == IF c.kind = "refreshPipelines"
                        THEN [c EXCEPT !.left = TRUE] ELSE c
             T == {M(c) : c \in BagToSet(b)}
         IN [d \in T |->
               IF d.kind = "refreshPipelines"
                  THEN CopiesIn([d EXCEPT !.left = FALSE], b) + CopiesIn(d, b)
                  ELSE CopiesIn(d, b)]

\* The commands of the program (the closures returned by the load functions).
loadGroups == Cmd("loadGroups", 0, 0)
loadAllProjects == Cmd("loadAllProjects", 0, 0)
loadGroupProjects == Cmd("loadGroupProjects", 0, 0)
loadProjectContent(sp) ==
    IF sp = 0 THEN NilCmd ELSE Cmd("loadProjectContent", sp, 0)
loadMRs(sp) == IF sp = 0 THEN NilCmd ELSE Cmd("loadMRs", sp, 0)
loadPipelines(sp) == IF sp = 0 THEN NilCmd ELSE Cmd("loadPipelines", sp, 0)
loadReleases(sp) == IF sp = 0 THEN NilCmd ELSE Cmd("loadReleases", sp, 0)
refreshPipelines(sp) ==
    IF sp = 0 THEN NilCmd ELSE Cmd("refreshPipelines", sp, 0)
pipelineTickCmd == Cmd("pipelineTick", 0, 0)

Min(S) == CHOOSE x \in S : \A y \in S : x <= y

\* adjustScrollOffset: the new fileScrollOffset for selection sel.
adjustScrollOffset(sel, off, h) ==
    LET contentHeight == h - StatusBarHeight
        visibleLines == IF contentHeight - 6 < 1 THEN 1 ELSE contentHeight - 6
    IN IF sel < off THEN sel
       ELSE IF sel >= off + visibleLines THEN sel - visibleLines + 1
       ELSE off

\* getContentCount
getContentCount ==
    CASE contentTab = TabFiles -> Len(files)
      [] contentTab = TabMRs -> Len(mergeRequests)
      [] contentTab = TabPipelines -> Len(pipelines)
      [] contentTab = TabReleases -> Len(releases)
      [] OTHER -> 0

\* Variant: the index is clamped, the pipeline is not looked up.
RestoreSelectionByIndex(old, sel, fresh) ==
    IF sel >= Len(fresh) /\ Len(fresh) > 0 THEN Len(fresh) - 1 ELSE sel

\* Variant: the pipeline is looked up, the index is not clamped.
RestoreSelectionNoClamp(old, sel, fresh) ==
    LET selectedPipelineID == IF sel < Len(old) THEN old[sel + 1] ELSE 0
        found == {j \in 1..Len(fresh) : fresh[j] = selectedPipelineID}
    IN IF selectedPipelineID # 0 /\ found # {} THEN Min(found) - 1 ELSE sel

\* Variant: the clamp stops one past the last index.
RestoreSelectionClampsToLen(old, sel, fresh) ==
    LET selectedPipelineID == IF sel < Len(old) THEN old[sel + 1] ELSE 0
        found == {j \in 1..Len(fresh) : fresh[j] = selectedPipelineID}
        restored == IF selectedPipelineID # 0 /\ found # {}
                       THEN Min(found) - 1 ELSE sel
    IN IF restored >= Len(fresh) /\ Len(fresh) > 0
          THEN Len(fresh) ELSE restored

\* The selection part of the pipelinesRefreshedMsg handler: the selected
\* pipeline is looked up by ID in the fresh list, then the index is clamped.
RestoreSelection(old, sel, fresh) ==
    LET selectedPipelineID == IF sel < Len(old) THEN old[sel + 1] ELSE 0
        found == {j \in 1..Len(fresh) : fresh[j] = selectedPipelineID}
        restored == IF selectedPipelineID # 0 /\ found # {}
                       THEN Min(found) - 1 ELSE sel
    IN IF restored >= Len(fresh) /\ Len(fresh) > 0
          THEN Len(fresh) - 1 ELSE restored


NoMerge == [pipelines |-> <<>>, selectedContent |-> 0, fresh |-> <<>>]

\* NewMainScreen followed by Init(): the groups are being loaded.
InitPipe ==
    /\ treeNodes = "empty"
    /\ focusedPanel = "PanelNavigator"
    /\ contentTab = TabFiles
    /\ selectedProject = 0
    /\ files = <<>>
    /\ mergeRequests = <<>>
    /\ pipelines = <<>>
    /\ releases = <<>>
    /\ selectedContent = 0
    /\ fileScrollOffset = 0
    /\ height = 0
    /\ loading = TRUE
    /\ lastError = ""
    /\ retryCmd = loadGroups
    /\ cmds = Batch({loadGroups})
    /\ lastMsg = "none"
    /\ mergedFrom = NoMerge

\* The screen of a program that was never started: nothing in flight.
InitPipeIdle ==
    /\ treeNodes = "empty"
    /\ focusedPanel = "PanelNavigator"
    /\ contentTab = TabFiles
    /\ selectedProject = 0
    /\ files = <<>>
    /\ mergeRequests = <<>>
    /\ pipelines = <<>>
    /\ releases = <<>>
    /\ selectedContent = 0
    /\ fileScrollOffset = 0
    /\ height = 0
    /\ loading = FALSE
    /\ lastError = ""
    /\ retryCmd = NilCmd
    /\ cmds = EmptyBag
    /\ lastMsg = "none"
    /\ mergedFrom = NoMerge

\* The command c has returned msg; Update hands back the commands in new.
Deliver(c, msg, new) ==
    /\ cmds' = (cmds (-) SetToBag({c})) (+) new
    /\ lastMsg' = msg

\* A key was handled; Update hands back the command cmd.
KeyHandled(cmd, tab) ==
    /\ cmds' = MarkLeft(cmds (+) Batch({cmd}), tab)
    /\ lastMsg' = "tea.KeyMsg"

CanDispatch == BagCardinality(cmds) < MaxCmds

\* The commands that report a failure as errMsg.
ErrKinds == {"loadGroups", "loadAllProjects", "loadGroupProjects",
             "loadProjectContent", "loadMRs", "loadPipelines", "loadReleases",
             "loadPipelineJobs", "loadJobLog"}

\* case errMsg
MsgErr(c) ==
    /\ c.kind \in ErrKinds
    /\ loading' = FALSE
    /\ lastError' = "err"
    /\ Deliver(c, "errMsg", EmptyBag)
    /\ UNCHANGED <<treeNodes, focusedPanel, contentTab, selectedProject, files,
                   mergeRequests, pipelines, releases, selectedContent,
                   fileScrollOffset, height, retryCmd>>

\* case groupsLoadedMsg: with no group at all the projects are loaded directly.
MsgGroupsLoaded(c) ==
    /\ c.kind = "loadGroups"
    /\ lastError' = ""
    /\ \E anyGroup \in BOOLEAN :
        IF anyGroup
           THEN /\ treeNodes' = IF treeNodes = "projects" THEN "projects"
                                ELSE "groups"
                /\ loading' = FALSE
                /\ Deliver(c, "groupsLoadedMsg", EmptyBag)
                /\ UNCHANGED retryCmd
           ELSE /\ treeNodes' = "empty"
                /\ loading' = TRUE
                /\ retryCmd' = loadAllProjects
                /\ Deliver(c, "groupsLoadedMsg", Batch({loadAllProjects}))
    /\ UNCHANGED <<focusedPanel, contentTab, selectedProject, files,
                   mergeRequests, pipelines, releases, selectedContent,
                   fileScrollOffset, height>>

\* case groupProjectsLoadedMsg and case allProjectsLoadedMsg: project nodes
\* appear in the navigator.
MsgProjectsLoaded(c) ==
    /\ c.kind \in {"loadGroupProjects", "loadAllProjects"}
    /\ treeNodes' = "projects"
    /\ loading' = FALSE
    /\ lastError' = ""
    /\ Deliver(c, IF c.kind = "loadAllProjects" THEN "allProjectsLoadedMsg"
                  ELSE "groupProjectsLoadedMsg", EmptyBag)
    /\ UNCHANGED <<focusedPanel, contentTab, selectedProject, files,
                   mergeRequests, pipelines, releases, selectedContent,
                   fileScrollOffset, height, retryCmd>>

\* case projectContentMsg
MsgProjectContent(c) ==
    /\ c.kind = "loadProjectContent"
    /\ \E es \in ItemLists : files' = es
    /\ selectedContent' = 0
    /\ fileScrollOffset' = 0
    /\ loading' = FALSE
    /\ lastError' = ""
    /\ Deliver(c, "projectContentMsg", EmptyBag)
    /\ UNCHANGED <<treeNodes, focusedPanel, contentTab, selectedProject,
                   mergeRequests, pipelines, releases, height, retryCmd>>

\* case mrsLoadedMsg
MsgMRsLoaded(c) ==
    /\ c.kind = "loadMRs"
    /\ \E ms \in ItemLists : mergeRequests' = ms
    /\ selectedContent' = 0
    /\ fileScrollOffset' = 0
    /\ loading' = FALSE
    /\ lastError' = ""
    /\ Deliver(c, "mrsLoadedMsg", EmptyBag)
    /\ UNCHANGED <<treeNodes, focusedPanel, contentTab, selectedProject, files,
                   pipelines, releases, height, retryCmd>>

\* case releasesLoadedMsg
MsgReleasesLoaded(c) ==
    /\ c.kind = "loadReleases"
    /\ \E rs \in ItemLists : releases' = rs
    /\ selectedContent' = 0
    /\ fileScrollOffset' = 0
    /\ loading' = FALSE
    /\ lastError' = ""
    /\ Deliver(c, "releasesLoadedMsg", EmptyBag)
    /\ UNCHANGED <<treeNodes, focusedPanel, contentTab, selectedProject, files,
                   mergeRequests, pipelines, height, retryCmd>>

\* case pipelinesLoadedMsg: the list is shown and the refresh timer is armed.
MsgPipelinesLoaded(c, ps) ==
    /\ c.kind = "loadPipelines"
    /\ pipelines' = ps
    /\ selectedContent' = 0
    /\ fileScrollOffset' = 0
    /\ loading' = FALSE
    /\ lastError' = ""
    /\ Deliver(c, "pipelinesLoadedMsg", Batch({pipelineTickCmd}))
    /\ UNCHANGED <<treeNodes, focusedPanel, contentTab, selectedProject, files,
                   mergeRequests, releases, height, retryCmd>>

\* Variant: old pipelines missing from the fresh list are kept at its end.
MsgPipelinesRefreshedKeepsOld(c, fresh) ==
    /\ c.kind = "refreshPipelines"
    /\ pipelines' =
           fresh \o SelectSeq(pipelines,
                              LAMBDA x : \A k \in DOMAIN fresh : fresh[k] # x)
    /\ selectedContent' = RestoreSelection(pipelines, selectedContent, fresh)
    /\ Deliver(c, "pipelinesRefreshedMsg", Batch({pipelineTickCmd}))
    /\ UNCHANGED <<treeNodes, focusedPanel, contentTab, selectedProject, files,
                   mergeRequests, releases, fileScrollOffset, height, loading,
                   lastError, retryCmd>>

\* Variant: the merge is made and the timer is not armed again.
MsgPipelinesRefreshedNoTimer(c, fresh) ==
    /\ c.kind = "refreshPipelines"
    /\ pipelines' = fresh
    /\ selectedContent' = RestoreSelection(pipelines, selectedContent, fresh)
    /\ Deliver(c, "pipelinesRefreshedMsg", EmptyBag)
    /\ UNCHANGED <<treeNodes, focusedPanel, contentTab, selectedProject, files,
                   mergeRequests, releases, fileScrollOffset, height, loading,
                   lastError, retryCmd>>

\* case pipelinesRefreshedMsg: the fresh list replaces the old one, the
\* selection follows the selected pipeline, and the timer is armed again.
MsgPipelinesRefreshed(c, fresh) ==
    /\ c.kind = "refreshPipelines"
    /\ pipelines' = fresh
    /\ selectedContent' = RestoreSelection(pipelines, selectedContent, fresh)
    /\ Deliver(c, "pipelinesRefreshedMsg", Batch({pipelineTickCmd}))
    /\ UNCHANGED <<treeNodes, focusedPanel, contentTab, selectedProject, files,
                   mergeRequests, releases, fileScrollOffset, height, loading,
                   lastError, retryCmd>>

\* refreshPipelines fails: the command returns nil and Update has no case
\* for it.
RefreshPipelinesFails(c) ==
    /\ c.kind = "refreshPipelines"
    /\ Deliver(c, "nil", EmptyBag)
    /\ UNCHANGED pipeVars

\* The command refreshPipelines() of the pipelineTickMsg case.
\* Variant: the tick refreshes whatever tab is shown.
TickCmdAnyTab ==
    IF selectedProject # 0 /\ ~loading
       THEN refreshPipelines(selectedProject)
       ELSE IF selectedProject # 0 THEN pipelineTickCmd ELSE NilCmd

TickCmd ==
    IF contentTab = TabPipelines /\ selectedProject # 0 /\ ~loading
       THEN refreshPipelines(selectedProject)
       ELSE IF selectedProject # 0 THEN pipelineTickCmd ELSE NilCmd

\* case pipelineTickMsg
MsgPipelineTick(c) ==
    /\ c.kind = "pipelineTick"
    /\ Deliver(c, "pipelineTickMsg", Batch({TickCmd}))
    /\ UNCHANGED pipeVars


\* The command switchTab returns: the list of the tab is loaded when empty.
switchTabCmd(tab) ==
    IF selectedProject = 0 THEN NilCmd
    ELSE CASE tab = TabFiles /\ Len(files) = 0 ->
                  loadProjectContent(selectedProject)
           [] tab = TabMRs /\ Len(mergeRequests) = 0 -> loadMRs(selectedProject)
           [] tab = TabPipelines /\ Len(pipelines) = 0 ->
                  loadPipelines(selectedProject)
           [] tab = TabReleases /\ Len(releases) = 0 ->
                  loadReleases(selectedProject)
           [] OTHER -> NilCmd

\* switchTab
switchTab(tab) ==
    LET cmd == switchTabCmd(tab)
    IN /\ cmd # NilCmd => CanDispatch
       /\ contentTab' = tab
       /\ selectedContent' = 0
       /\ IF cmd # NilCmd
             THEN loading' = TRUE /\ retryCmd' = cmd
             ELSE UNCHANGED <<loading, retryCmd>>
       /\ KeyHandled(cmd, tab)

\* handleKey: the keys 1 and 2 focus a panel.
KeyPanel(panel) ==
    /\ focusedPanel # panel
    /\ focusedPanel' = panel
    /\ KeyHandled(NilCmd, contentTab)
    /\ UNCHANGED <<treeNodes, contentTab, selectedProject, files, mergeRequests,
                   pipelines, releases, selectedContent, fileScrollOffset,
                   height, loading, lastError, retryCmd>>

\* handleKey: Esc clears a shown error; otherwise handleContentNav goes back
\* to the navigator.
KeyEsc ==
    /\ IF lastError # ""
          THEN lastError' = "" /\ UNCHANGED focusedPanel
          ELSE /\ focusedPanel = "PanelContent"
               /\ focusedPanel' = "PanelNavigator"
               /\ UNCHANGED lastError
    /\ KeyHandled(NilCmd, contentTab)
    /\ UNCHANGED <<treeNodes, contentTab, selectedProject, files, mergeRequests,
                   pipelines, releases, selectedContent, fileScrollOffset,
                   height, loading, retryCmd>>

\* handleKey: r re-issues retryCmd while an error is shown.
KeyRetry ==
    /\ lastError # ""
    /\ retryCmd # NilCmd
    /\ CanDispatch
    /\ lastError' = ""
    /\ loading' = TRUE
    /\ KeyHandled(retryCmd, contentTab)
    /\ UNCHANGED <<treeNodes, focusedPanel, contentTab, selectedProject, files,
                   mergeRequests, pipelines, releases, selectedContent,
                   fileScrollOffset, height, retryCmd>>

\* handleNavigatorNav, Select on a group whose projects are not cached.
KeyNavSelectGroup ==
    /\ focusedPanel = "PanelNavigator"
    /\ treeNodes = "groups"
    /\ CanDispatch
    /\ loading' = TRUE
    /\ retryCmd' = loadGroupProjects
    /\ KeyHandled(loadGroupProjects, contentTab)
    /\ UNCHANGED <<treeNodes, focusedPanel, contentTab, selectedProject, files,
                   mergeRequests, pipelines, releases, selectedContent,
                   fileScrollOffset, height, lastError>>

\* handleNavigatorNav, Select on the node of project p.
KeyNavSelectProject(p) ==
    /\ focusedPanel = "PanelNavigator"
    /\ treeNodes = "projects"
    /\ CanDispatch
    /\ selectedProject' = p
    /\ contentTab' = TabFiles
    /\ focusedPanel' = "PanelContent"
    /\ files' = <<>>
    /\ mergeRequests' = <<>>
    /\ pipelines' = <<>>
    /\ releases' = <<>>
    /\ loading' = TRUE
    /\ retryCmd' = loadProjectContent(p)
    /\ KeyHandled(loadProjectContent(p), TabFiles)
    /\ UNCHANGED <<treeNodes, selectedContent, fileScrollOffset, height,
                   lastError>>

\* handleContentNav, Left: the previous tab, or the navigator from the first.
KeyLeft ==
    /\ focusedPanel = "PanelContent"
    /\ IF contentTab > TabFiles
          THEN /\ switchTab(contentTab - 1)
               /\ UNCHANGED focusedPanel
          ELSE /\ focusedPanel' = "PanelNavigator"
               /\ KeyHandled(NilCmd, contentTab)
               /\ UNCHANGED <<contentTab, selectedContent, loading, retryCmd>>
    /\ UNCHANGED <<treeNodes, selectedProject, files, mergeRequests, pipelines,
                   releases, fileScrollOffset, height, lastError>>

\* handleContentNav, Right: the next tab.
KeyRight ==
    /\ focusedPanel = "PanelContent"
    /\ contentTab < TabReleases
    /\ switchTab(contentTab + 1)
    /\ UNCHANGED <<treeNodes, focusedPanel, selectedProject, files,
                   mergeRequests, pipelines, releases, fileScrollOffset, height,
                   lastError>>

\* handleContentNav, Down.
KeyDown ==
    /\ focusedPanel = "PanelContent"
    /\ selectedContent < getContentCount - 1
    /\ selectedContent' = selectedContent + 1
    /\ fileScrollOffset' =
           adjustScrollOffset(selectedContent + 1, fileScrollOffset, height)
    /\ KeyHandled(NilCmd, contentTab)
    /\ UNCHANGED <<treeNodes, focusedPanel, contentTab, selectedProject, files,
                   mergeRequests, pipelines, releases, height, loading,
                   lastError, retryCmd>>

\* handleContentNav, Up.
KeyUp ==
    /\ focusedPanel = "PanelContent"
    /\ selectedContent > 0
    /\ selectedContent' = selectedContent - 1
    /\ fileScrollOffset' =
           adjustScrollOffset(selectedContent - 1, fileScrollOffset, height)
    /\ KeyHandled(NilCmd, contentTab)
    /\ UNCHANGED <<treeNodes, focusedPanel, contentTab, selectedProject, files,
                   mergeRequests, pipelines, releases, height, loading,
                   lastError, retryCmd>>

(***************************************************************************)
(* Part 4: the job-log popup of MainScreen: handleJobLogPopup and the      *)
(* job and job-log cases of Update.  Not modelled: the viewport, the log    *)
(* cursor, horizontal scrolling and visual line mode.                       *)
(***************************************************************************)
VARIABLES
    showJobLogPopup,
    currentPipelineID,
    jobs,               \* the jobs of the pipeline, by ID
    selectedJobIdx,
    jobLog,             \* 0 for "", otherwise the ID of the job the log is of
    jobLogFocused

jobVars == <<showJobLogPopup, currentPipelineID, jobs, selectedJobIdx, jobLog,
             jobLogFocused>>

MaxJobID == 2           \* job IDs 1..MaxJobID
MaxInFlight == 4        \* commands in flight before a job-log timer is held back

\* The lists ListPipelineJobs can answer with.
JobLists == ListsOver(MaxJobID)

loadPipelineJobs(sp, pipelineID) ==
    IF sp = 0 THEN NilCmd ELSE Cmd("loadPipelineJobs", sp, pipelineID)
loadJobLog(sp, jobID) ==
    IF sp = 0 THEN NilCmd ELSE Cmd("loadJobLog", sp, jobID)
refreshJobLog(sp, js, idx) ==
    IF sp = 0 \/ idx < 0 \/ idx >= Len(js)
       THEN NilCmd ELSE Cmd("refreshJobLog", sp, js[idx + 1])
refreshJobs(sp, pipelineID) ==
    IF sp = 0 \/ pipelineID = 0
       THEN NilCmd ELSE Cmd("refreshJobs", sp, pipelineID)
jobLogTickCmd == Cmd("jobLogTick", 0, 0)

InitJobIdle ==
    /\ showJobLogPopup = FALSE
    /\ currentPipelineID = 0
    /\ jobs = <<>>
    /\ selectedJobIdx = 0
    /\ jobLog = 0
    /\ jobLogFocused = FALSE

\* The selection part of the jobsRefreshedMsg handler.
\* Variant: the index is kept, whatever job is at it.
RestoreJobSelectionByIndex(old, idx, fresh) == idx

RestoreJobSelection(old, idx, fresh) ==
    LET selectedJobID == IF idx >= 0 /\ idx < Len(old) THEN old[idx + 1] ELSE 0
        found == {j \in 1..Len(fresh) : fresh[j] = selectedJobID}
    IN IF selectedJobID # 0 /\ found # {} THEN Min(found) - 1 ELSE idx

\* handleContentNav, Select on the Pipelines tab: the popup opens and the
\* jobs of the selected pipeline are loaded.
KeyEnterPipeline ==
    /\ ~showJobLogPopup
    /\ focusedPanel = "PanelContent"
    /\ contentTab = TabPipelines
    /\ selectedContent < Len(pipelines)
    /\ CanDispatch
    /\ LET cmd == loadPipelineJobs(selectedProject, pipelines[selectedContent + 1])
       IN /\ jobs' = <<>>
          /\ jobLog' = 0
          /\ showJobLogPopup' = TRUE
          /\ jobLogFocused' = FALSE
          /\ currentPipelineID' = pipelines[selectedContent + 1]
          /\ loading' = TRUE
          /\ retryCmd' = cmd
          /\ KeyHandled(cmd, contentTab)
    /\ UNCHANGED <<treeNodes, focusedPanel, contentTab, selectedProject, files,
                   mergeRequests, pipelines, releases, selectedContent,
                   fileScrollOffset, height, lastError, selectedJobIdx>>

\* handleJobLogPopup, q; and Esc on the job list: the popup closes.
KeyPopupClose ==
    /\ showJobLogPopup
    /\ showJobLogPopup' = FALSE
    /\ jobs' = <<>>
    /\ jobLog' = 0
    /\ lastError' = ""
    /\ jobLogFocused' = FALSE
    /\ KeyHandled(NilCmd, contentTab)
    /\ UNCHANGED <<treeNodes, focusedPanel, contentTab, selectedProject, files,
                   mergeRequests, pipelines, releases, selectedContent,
                   fileScrollOffset, height, loading, retryCmd,
                   currentPipelineID, selectedJobIdx>>

\* handleJobLogPopup, L or Enter focuses the log; H, or Esc on the log,
\* goes back to the job list.
KeyPopupFocus ==
    /\ showJobLogPopup
    /\ jobLogFocused' = ~jobLogFocused
    /\ KeyHandled(NilCmd, contentTab)
    /\ UNCHANGED <<pipeVars, showJobLogPopup, currentPipelineID, jobs,
                   selectedJobIdx, jobLog>>

\* handleJobLogPopup, j and k on the job list: the next or previous job is
\* selected and its log is loaded.  The job is read at the new index without
\* a bounds check: an index outside jobs is a run-time panic.
KeyPopupMove(d) ==
    /\ showJobLogPopup
    /\ ~jobLogFocused
    /\ IF d = 1 THEN selectedJobIdx < Len(jobs) - 1 ELSE selectedJobIdx > 0
    /\ CanDispatch
    /\ selectedJobIdx' = selectedJobIdx + d
    /\ jobLog' = 0
    /\ loading' = TRUE
    /\ IF selectedJobIdx + d < Len(jobs)
          THEN LET cmd == loadJobLog(selectedProject, jobs[selectedJobIdx + d + 1])
               IN /\ retryCmd' = cmd
                  /\ KeyHandled(cmd, contentTab)
          ELSE /\ cmds' = cmds
               /\ lastMsg' = "panic"
               /\ UNCHANGED retryCmd
    /\ UNCHANGED <<treeNodes, focusedPanel, contentTab, selectedProject, files,
                   mergeRequests, pipelines, releases, selectedContent,
                   fileScrollOffset, height, lastError, showJobLogPopup,
                   currentPipelineID, jobs, jobLogFocused>>

\* case jobsLoadedMsg: the log of the first job is loaded at once.
MsgJobsLoaded(c, js) ==
    /\ c.kind = "loadPipelineJobs"
    /\ jobs' = js
    /\ selectedJobIdx' = 0
    /\ jobLog' = 0
    /\ lastError' = ""
    /\ IF Len(js) > 0
          THEN /\ loading' = TRUE
               /\ retryCmd' = loadJobLog(selectedProject, js[1])
               /\ Deliver(c, "jobsLoadedMsg",
                          Batch({loadJobLog(selectedProject, js[1])}))
          ELSE /\ loading' = FALSE
               /\ Deliver(c, "jobsLoadedMsg", EmptyBag)
               /\ UNCHANGED retryCmd
    /\ UNCHANGED <<treeNodes, focusedPanel, contentTab, selectedProject, files,
                   mergeRequests, pipelines, releases, selectedContent,
                   fileScrollOffset, height, showJobLogPopup,
                   currentPipelineID, jobLogFocused>>

\* case jobLogLoadedMsg: the log is shown and the job-log timer is armed.
\* GetJobLog answers with the log of the job asked for, or with an empty log.
MsgJobLogLoaded(c, log) ==
    /\ c.kind = "loadJobLog"
    /\ jobLog' = log
    /\ loading' = FALSE
    /\ lastError' = ""
    /\ Deliver(c, "jobLogLoadedMsg", Batch({jobLogTickCmd}))
    /\ UNCHANGED <<treeNodes, focusedPanel, contentTab, selectedProject, files,
                   mergeRequests, pipelines, releases, selectedContent,
                   fileScrollOffset, height, retryCmd, showJobLogPopup,
                   currentPipelineID, jobs, selectedJobIdx, jobLogFocused>>

\* The commands of the jobLogTickMsg case.
JobLogTickCmds ==
    IF showJobLogPopup
       THEN Batch({refreshJobs(selectedProject, currentPipelineID),
                   refreshJobLog(selectedProject, jobs, selectedJobIdx),
                   jobLogTickCmd})
       ELSE EmptyBag

\* case jobLogTickMsg
MsgJobLogTick(c) ==
    /\ c.kind = "jobLogTick"
    /\ BagCardinality(cmds) - 1 + BagCardinality(JobLogTickCmds) <= MaxInFlight
    /\ Deliver(c, "jobLogTickMsg", JobLogTickCmds)
    /\ UNCHANGED <<pipeVars, jobVars>>

\* case jobsRefreshedMsg
MsgJobsRefreshed(c, fresh) ==
    /\ c.kind = "refreshJobs"
    /\ IF showJobLogPopup
          THEN /\ jobs' = fresh
               /\ selectedJobIdx' = RestoreJobSelection(jobs, selectedJobIdx, fresh)
          ELSE UNCHANGED <<jobs, selectedJobIdx>>
    /\ Deliver(c, "jobsRefreshedMsg", EmptyBag)
    /\ UNCHANGED <<pipeVars, showJobLogPopup, currentPipelineID, jobLog,
                   jobLogFocused>>

\* Variant: the refreshed log is applied whether or not the popup is open.
MsgJobLogRefreshedAnyPopup(c, log) ==
    /\ c.kind = "refreshJobLog"
    /\ IF log # 0
          THEN jobLog' = log
          ELSE UNCHANGED jobLog
    /\ Deliver(c, "jobLogRefreshedMsg", EmptyBag)
    /\ UNCHANGED <<pipeVars, showJobLogPopup, currentPipelineID, jobs,
                   selectedJobIdx, jobLogFocused>>

\* case jobLogRefreshedMsg
MsgJobLogRefreshed(c, log) ==
    /\ c.kind = "refreshJobLog"
    /\ IF log # 0 /\ showJobLogPopup
          THEN jobLog' = log
          ELSE UNCHANGED jobLog
    /\ Deliver(c, "jobLogRefreshedMsg", EmptyBag)
    /\ UNCHANGED <<pipeVars, showJobLogPopup, currentPipelineID, jobs,
                   selectedJobIdx, jobLogFocused>>

\* Variant: a failed refreshJobs or refreshJobLog is reported as errMsg.
RefreshJobFailsAsErrMsg(c) ==
    /\ c.kind \in {"refreshJobs", "refreshJobLog"}
    /\ loading' = FALSE
    /\ lastError' = "err"
    /\ Deliver(c, "errMsg", EmptyBag)
    /\ UNCHANGED <<treeNodes, focusedPanel, contentTab, selectedProject, files,
                   mergeRequests, pipelines, releases, selectedContent,
                   fileScrollOffset, height, retryCmd, jobVars>>

\* refreshJobs or refreshJobLog fails: the command returns nil.
RefreshJobFails(c) ==
    /\ c.kind \in {"refreshJobs", "refreshJobLog"}
    /\ Deliver(c, "nil", EmptyBag)
    /\ UNCHANGED <<pipeVars, jobVars>>

\* One message reaches Update.
MsgStep ==
    \E c \in InFlightCmds :
        \/ MsgErr(c)
        \/ MsgGroupsLoaded(c)
        \/ MsgProjectsLoaded(c)
        \/ MsgProjectContent(c)
        \/ MsgMRsLoaded(c)
        \/ MsgReleasesLoaded(c)
        \/ \E ps \in LoopLists : MsgPipelinesLoaded(c, ps)
        \/ \E fresh \in LoopLists : MsgPipelinesRefreshed(c, fresh)
        \/ RefreshPipelinesFails(c)
        \/ MsgPipelineTick(c)

\* One key reaches handleKey while no popup is open.
KeyStep ==
    /\ ~showJobLogPopup
    /\ \/ \E panel \in {"PanelNavigator", "PanelContent"} : KeyPanel(panel)
       \/ KeyEsc
       \/ KeyRetry
       \/ KeyNavSelectGroup
       \/ \E p \in Projects : KeyNavSelectProject(p)
       \/ KeyLeft
       \/ KeyRight
       \/ KeyDown
       \/ KeyUp

\* A panic ends the program.
Running == lastMsg # "panic"

NextPipePart ==
    Running /\ (MsgStep \/ KeyStep) /\ UNCHANGED <<jobVars, mergedFrom>>

\* The job-log popup: the user stays on the Pipelines tab, opens the popup,
\* moves in it and closes it, while the pipeline loop keeps running.
MsgStepJobLog ==
    \E c \in InFlightCmds :
        \/ MsgErr(c) /\ UNCHANGED jobVars
        \/ \E fresh \in LoopLists :
              MsgPipelinesRefreshed(c, fresh) /\ UNCHANGED jobVars
        \/ RefreshPipelinesFails(c) /\ UNCHANGED jobVars
        \/ MsgPipelineTick(c) /\ UNCHANGED jobVars
        \/ \E js \in JobLists : MsgJobsLoaded(c, js)
        \/ \E log \in {0, c.arg} : MsgJobLogLoaded(c, log)
        \/ MsgJobLogTick(c)
        \/ \E fresh \in JobLists : MsgJobsRefreshed(c, fresh)
        \/ \E log \in {0, c.arg} : MsgJobLogRefreshed(c, log)
        \/ RefreshJobFails(c)

KeyStepJobLog ==
    \/ KeyEnterPipeline
    \/ KeyPopupClose
    \/ KeyPopupFocus
    \/ \E d \in {-1, 1} : KeyPopupMove(d)
    \/ ~showJobLogPopup /\ KeyRetry /\ UNCHANGED jobVars

NextJobLogPart ==
    Running /\ (MsgStepJobLog \/ KeyStepJobLog) /\ UNCHANGED mergedFrom

\* The Pipelines tab of project 1 right after its list was loaded: what
\* pipelinesLoadedMsg leaves behind.
PipelinesShown(lists) ==
    /\ treeNodes = "projects"
    /\ focusedPanel = "PanelContent"
    /\ contentTab = TabPipelines
    /\ selectedProject = 1
    /\ files = <<1, 2>>
    /\ mergeRequests = <<>>
    /\ pipelines \in lists
    /\ releases = <<>>
    /\ selectedContent = 0
    /\ fileScrollOffset = 0
    /\ height = 0
    /\ loading = FALSE
    /\ lastError = ""
    /\ retryCmd = loadPipelines(1)
    /\ cmds = Batch({pipelineTickCmd})
    /\ lastMsg = "pipelinesLoadedMsg"
    /\ mergedFrom = NoMerge

InitJobLog == PipelinesShown(LoopLists)

\* The merge of pipelinesRefreshedMsg on its own: the user moves the
\* selection on the Pipelines tab while the loop refreshes the list.
InitMerge == PipelinesShown(PipelineLists)

NextMergePart ==
    /\ Running
    /\ UNCHANGED jobVars
    /\ \/ \E c \in InFlightCmds : \E fresh \in PipelineLists :
             /\ MsgPipelinesRefreshed(c, fresh)
             /\ mergedFrom' = [pipelines |-> pipelines,
                               selectedContent |-> selectedContent,
                               fresh |-> fresh]
       \/ \E c \in InFlightCmds : RefreshPipelinesFails(c) /\ UNCHANGED mergedFrom
       \/ \E c \in InFlightCmds : MsgPipelineTick(c) /\ UNCHANGED mergedFrom
       \/ KeyDown /\ UNCHANGED mergedFrom
       \/ KeyUp /\ UNCHANGED mergedFrom

\* The job-log popup over fixed answers of the remote service: the lists
\* ListPipelines and ListPipelineJobs answer with are drawn from two small
\* sets, so that the exploration is bounded by the commands in flight alone.
PopupPipelineLists == {<<1>>, <<2, 1>>}
PopupJobLists == {<<>>, <<1, 2>>, <<2, 1>>}

InitPopup == PipelinesShown(PopupPipelineLists)

MsgStepPopup ==
    \E c \in InFlightCmds :
        \/ MsgErr(c) /\ UNCHANGED jobVars
        \/ \E fresh \in PopupPipelineLists :
              MsgPipelinesRefreshed(c, fresh) /\ UNCHANGED jobVars
        \/ RefreshPipelinesFails(c) /\ UNCHANGED jobVars
        \/ MsgPipelineTick(c) /\ UNCHANGED jobVars
        \/ \E js \in PopupJobLists : MsgJobsLoaded(c, js)
        \/ \E log \in {0, c.arg} : MsgJobLogLoaded(c, log)
        \/ MsgJobLogTick(c)
        \/ \E fresh \in PopupJobLists : MsgJobsRefreshed(c, fresh)
        \/ \E log \in {0, c.arg} : MsgJobLogRefreshed(c, log)
        \/ RefreshJobFails(c)

NextPopupPart ==
    Running /\ (MsgStepPopup \/ KeyStepJobLog) /\ UNCHANGED mergedFrom

\* The pipeline refresh loop on its own: the list has just been loaded, the
\* user is idle on the Pipelines tab and every refresh fetch succeeds.
VARIABLES
    ticks,      \* history: the pipelineTickMsg handled so far
    merges      \* history: the pipelinesRefreshedMsg applied so far

loopVars == <<ticks, merges>>

MaxTicks == 3           \* the timer fires at most MaxTicks times

InitLoopIdle == ticks = 0 /\ merges = 0

NextLoopPart ==
    /\ Running
    /\ UNCHANGED <<jobVars, mergedFrom>>
    /\ \/ \E c \in InFlightCmds :
             /\ ticks < MaxTicks
             /\ MsgPipelineTick(c)
             /\ ticks' = ticks + 1
             /\ UNCHANGED merges
       \/ \E c \in InFlightCmds : \E fresh \in PipelineLists :
             /\ MsgPipelinesRefreshed(c, fresh)
             /\ merges' = merges + 1
             /\ UNCHANGED ticks

(***************************************************************************)
(* The retry classification on its own: isRetryableStatus applied to one   *)
(* status code.  net/http hands every three-digit status of a response to  *)
(* the caller, so the input ranges over 100..999 and not only over the     *)
(* registered classes 1xx..5xx.                                            *)
(***************************************************************************)
VARIABLES
    statusCode,     \* the argument of isRetryableStatus; 0 when not in use
    classified,     \* whether isRetryableStatus has returned
    retryable       \* its result; FALSE before the call

statusVars == <<statusCode, classified, retryable>>

MinStatusCode == 100
MaxStatusCode == 999

StatusCodes == MinStatusCode..MaxStatusCode

InitStatusIdle == statusCode = 0 /\ classified = FALSE /\ retryable = FALSE

InitStatus ==
    statusCode \in StatusCodes /\ classified = FALSE /\ retryable = FALSE

\* the retry decision of doWithRetry for a response with this status
Classify ==
    /\ statusCode # 0
    /\ ~classified
    /\ classified' = TRUE
    /\ retryable' = isRetryableStatus(statusCode)
    /\ UNCHANGED statusCode

NextStatusPart == Classify

(***************************************************************************)
(* The request of one client call and what goes on the wire: get,          *)
(* GetFileContent and GetJobLog each build one *http.Request and hand it   *)
(* to doWithRetry, which sends that same request on every attempt.         *)
(***************************************************************************)
VARIABLES
    req,        \* the request built by the client operation
    wire        \* history: the method of every request sent, in order

reqVars == <<req, wire>>

\* The functions of the client that build a request.
ClientOps == {"get", "GetFileContent", "GetJobLog"}

NoRequest == [op |-> "none", method |-> "none"]

\* Variant: the job log is requested with POST.
NewRequestPostsJobLog(op) ==
    [op |-> op, method |-> IF op = "GetJobLog" THEN "POST" ELSE "GET"]

\* http.NewRequest("GET", reqURL, nil)
NewRequest(op) == [op |-> op, method |-> "GET"]

InitReqIdle == req = NoRequest /\ wire = <<>>

InitReq == req \in {NewRequest(op) : op \in ClientOps} /\ wire = <<>>

\* doWithRetry with the request in view: c.httpClient.Do(req) puts the
\* method of req on the wire; the other steps send nothing.
NextRetryWirePart ==
    \/ RetryDo /\ wire' = Append(wire, req.method) /\ UNCHANGED req
    \/ (RetrySleep \/ RetryExhausted \/ GetFinish) /\ UNCHANGED reqVars

(***************************************************************************)
(* Threads.  The runtime calls Update and the key handlers on its event    *)
(* loop, one message at a time, and runs every command in a goroutine of   *)
(* its own, whose returned message the event loop receives.  Reads and     *)
(* writes of MainScreen fields are intervals: acc holds the accesses in    *)
(* progress, so that two overlapping accesses of one field show.           *)
(***************************************************************************)
VARIABLES
    upc,        \* the event loop: "wait" for a message or "handle" one
    cur,        \* the message Update is handling
    gpc,        \* position of each command goroutine
    gkind,      \* the command each goroutine runs
    gres,       \* the message the command returned
    acc         \* accesses of MainScreen fields in progress

threadVars == <<upc, cur, gpc, gkind, gres, acc>>

MaxGoroutines == 3

Goroutines == 1..MaxGoroutines

\* The thread of the event loop, which calls Update; not a command goroutine.
EventLoop == 0

CmdKinds ==
    {"loadProjectContent", "refreshPipelines", "refreshJobs", "refreshJobLog"}

\* What the closure of a command returns: its message, errMsg, or nil.
CmdResults(kind) ==
    CASE kind = "loadProjectContent" -> {"projectContentMsg", "errMsg"}
      [] kind = "refreshPipelines" -> {"pipelinesRefreshedMsg", "nil"}
      [] kind = "refreshJobs" -> {"jobsRefreshedMsg", "nil"}
      [] kind = "refreshJobLog" -> {"jobLogRefreshedMsg", "nil"}

\* The fields the handler of a message assigns.
UpdateWrites(msg) ==
    CASE msg = "projectContentMsg" ->
             {"files", "selectedContent", "fileScrollOffset", "loading",
              "lastError"}
      [] msg = "errMsg" -> {"loading", "lastError"}
      [] msg = "pipelinesRefreshedMsg" -> {"pipelines", "selectedContent"}
      [] msg = "jobsRefreshedMsg" -> {"jobs", "selectedJobIdx"}
      [] msg = "jobLogRefreshedMsg" -> {"jobLog"}
      [] msg = "KeyMsg" -> {"selectedContent", "loading", "retryCmd"}

\* Variant: the load command stores the tree in m.files itself.
CmdAccessStoresFiles(kind) ==
    IF kind = "loadProjectContent"
       THEN {[field |-> "client", write |-> FALSE],
             [field |-> "files", write |-> TRUE]}
       ELSE {[field |-> "client", write |-> FALSE]}

\* The fields the closure of a command touches while it runs: it calls a
\* method of m.client; everything else it uses was copied into locals when
\* the command was made.
CmdAccess(kind) == {[field |-> "client", write |-> FALSE]}

By(t, as) == {[by |-> t, field |-> a.field, write |-> a.write] : a \in as}

InitThreadsIdle ==
    /\ upc = "wait"
    /\ cur = "none"
    /\ gpc = [g \in Goroutines |-> "free"]
    /\ gkind = [g \in Goroutines |-> "none"]
    /\ gres = [g \in Goroutines |-> "none"]
    /\ acc = {}

InitThreads == InitThreadsIdle

\* A key press reaches Update.
KeyBegin ==
    /\ upc = "wait"
    /\ upc' = "handle"
    /\ cur' = "KeyMsg"
    /\ acc' = acc \cup By(EventLoop, {[field |-> f, write |-> TRUE] :
                                        f \in UpdateWrites("KeyMsg")})
    /\ UNCHANGED <<gpc, gkind, gres>>

\* The event loop receives the message of goroutine g, which ends; a nil
\* message is dropped, any other is passed to Update.
RecvBegin(g) ==
    /\ upc = "wait"
    /\ gpc[g] = "send"
    /\ gpc' = [gpc EXCEPT ![g] = "free"]
    /\ gkind' = [gkind EXCEPT ![g] = "none"]
    /\ gres' = [gres EXCEPT ![g] = "none"]
    /\ IF gres[g] = "nil"
          THEN UNCHANGED <<upc, cur, acc>>
          ELSE /\ upc' = "handle"
               /\ cur' = gres[g]
               /\ acc' = acc \cup By(EventLoop,
                                     {[field |-> f, write |-> TRUE] :
                                         f \in UpdateWrites(gres[g])})

\* Update returns; the commands it returned (tea.Batch) start in goroutines.
UpdateEnd ==
    /\ upc = "handle"
    /\ upc' = "wait"
    /\ cur' = "none"
    /\ acc' = {a \in acc : a.by # EventLoop}
    /\ \E S \in SUBSET {g \in Goroutines : gpc[g] = "free"} :
       \E kinds \in [S -> CmdKinds] :
          /\ gpc' = [g \in Goroutines |-> IF g \in S THEN "start" ELSE gpc[g]]
          /\ gkind' = [g \in Goroutines |->
                          IF g \in S THEN kinds[g] ELSE gkind[g]]
    /\ UNCHANGED gres

\* The closure starts: it loads m.client to call one of its methods.
CmdStart(g) ==
    /\ gpc[g] = "start"
    /\ gpc' = [gpc EXCEPT ![g] = "read"]
    /\ acc' = acc \cup By(g, CmdAccess(gkind[g]))
    /\ UNCHANGED <<upc, cur, gkind, gres>>

\* The client method is running: the request is in flight.
CmdCall(g) ==
    /\ gpc[g] = "read"
    /\ gpc' = [gpc EXCEPT ![g] = "call"]
    /\ acc' = {a \in acc : a.by # g}
    /\ UNCHANGED <<upc, cur, gkind, gres>>

\* The closure returns its one message.
CmdReturn(g) ==
    /\ gpc[g] = "call"
    /\ \E r \in CmdResults(gkind[g]) : gres' = [gres EXCEPT ![g] = r]
    /\ gpc' = [gpc EXCEPT ![g] = "send"]
    /\ UNCHANGED <<upc, cur, gkind, acc>>

NextThreadsPart ==
    \/ KeyBegin
    \/ \E g \in Goroutines : RecvBegin(g)
    \/ UpdateEnd
    \/ \E g \in Goroutines : CmdStart(g)
    \/ \E g \in Goroutines : CmdCall(g)
    \/ \E g \in Goroutines : CmdReturn(g)

(***************************************************************************)
(* A list operation of the client: one GET with per_page=<c.perPage>,      *)
(* whose decoded body is the result.  The remote service answers with the  *)
(* first page of the collection.                                           *)
(***************************************************************************)
VARIABLES
    listPc,     \* position of the list operation: request, reply, done
    listOp,     \* the list operation called
    perPage,    \* c.perPage
    remote,     \* the collection held by the remote service
    page,       \* the items in the body of the response
    listResult  \* the slice the operation returns

listVars == <<listPc, listOp, perPage, remote, page, listResult>>

DefaultPerPage == 50

MaxRemote == 3

ListOps ==
    {"ListBranches", "ListMergeRequests", "ListPipelines", "ListGroupProjects",
     "ListProjects", "ListGroups", "ListPipelineJobs"}

\* config.DefaultPerPage, or a value set with WithPerPage.
PerPages == {1, 2, DefaultPerPage}

\* Collections of up to MaxRemote items, and one that has one item more than
\* the default page; no project among the items is marked for deletion, so
\* filterActiveProjects keeps them all.
RemoteSizes == (0..MaxRemote) \cup {DefaultPerPage + 1}

FirstPage(items, n) ==
    SubSeq(items, 1, IF Len(items) < n THEN Len(items) ELSE n)

InitListIdle ==
    /\ listPc = "idle"
    /\ listOp = "none"
    /\ perPage = DefaultPerPage
    /\ remote = <<>>
    /\ page = <<>>
    /\ listResult = <<>>

InitList ==
    /\ listPc = "request"
    /\ listOp \in ListOps
    /\ perPage \in PerPages
    /\ remote \in {[k \in 1..n |-> k] : n \in RemoteSizes}
    /\ page = <<>>
    /\ listResult = <<>>

\* c.get(path, &items) sends its one request; the service answers with the
\* first per_page items.
ListGet ==
    /\ listPc = "request"
    /\ page' = FirstPage(remote, perPage)
    /\ listPc' = "reply"
    /\ UNCHANGED <<listOp, perPage, remote, listResult>>

\* get decodes the body into the slice, which the operation returns.
ListReturn ==
    /\ listPc = "reply"
    /\ listResult' = page
    /\ listPc' = "done"
    /\ UNCHANGED <<listOp, perPage, remote, page>>

NextListPart == ListGet \/ ListReturn

extVars == <<statusVars, reqVars, threadVars, listVars>>

InitExtIdle ==
    InitStatusIdle /\ InitReqIdle /\ InitThreadsIdle /\ InitListIdle

\* The two timers with the views they serve: the user switches tabs, opens
\* and closes the job-log popup and retries, while both timers run and every
\* list fetched holds the same items.
TickPipelineLists == {<<1>>}
TickJobLists == {<<1>>}

InitTick == PipelinesShown(TickPipelineLists)

MsgStepTick ==
    \E c \in InFlightCmds :
        \/ MsgErr(c) /\ UNCHANGED jobVars
        \/ MsgProjectContent(c) /\ UNCHANGED jobVars
        \/ MsgMRsLoaded(c) /\ UNCHANGED jobVars
        \/ MsgReleasesLoaded(c) /\ UNCHANGED jobVars
        \/ \E ps \in TickPipelineLists :
              MsgPipelinesLoaded(c, ps) /\ UNCHANGED jobVars
        \/ \E fresh \in TickPipelineLists :
              MsgPipelinesRefreshed(c, fresh) /\ UNCHANGED jobVars
        \/ RefreshPipelinesFails(c) /\ UNCHANGED jobVars
        \/ MsgPipelineTick(c) /\ UNCHANGED jobVars
        \/ \E js \in TickJobLists : MsgJobsLoaded(c, js)
        \/ MsgJobLogLoaded(c, c.arg)
        \/ MsgJobLogTick(c)
        \/ \E fresh \in TickJobLists : MsgJobsRefreshed(c, fresh)
        \/ MsgJobLogRefreshed(c, c.arg)
        \/ RefreshJobFails(c)

KeyStepTick ==
    \/ KeyEnterPipeline
    \/ KeyPopupClose
    \/ ~showJobLogPopup /\ KeyRetry /\ UNCHANGED jobVars
    \/ ~showJobLogPopup /\ KeyLeft /\ UNCHANGED jobVars
    \/ ~showJobLogPopup /\ KeyRight /\ UNCHANGED jobVars

NextTickPart ==
    Running /\ (MsgStepTick \/ KeyStepTick) /\ UNCHANGED mergedFrom

uiVars == <<pipeVars, jobVars, cmds, lastMsg, mergedFrom>>

(***************************************************************************)
(* ViewStack and the root model App that owns one.  A view is its title    *)
(* and, for the history of the stack alone, the number of the Push that    *)
(* put it there.                                                           *)
(***************************************************************************)
VARIABLES
    stack,      \* ViewStack.views
    ret,        \* what the last Pop or Current returned
    op,         \* the last operation or message
    pushed,     \* history: the title of every view pushed, in order
    gone,       \* history: the numbers of the pushes popped since
    quitting    \* App.Update returned tea.Quit

stackVars == <<stack, ret, op, pushed, gone, quitting>>

MaxPushes == 4
MaxDepth == 3

Titles == {"Groups", "Projects"}

NilView == [title |-> "nil", id |-> 0]

\* s.views = append(s.views, v)
Push(s, v) == Append(s, v)

\* Variant: Pop takes the oldest view.
PopOldest(s) ==
    IF Len(s) = 0
       THEN [views |-> s, ret |-> NilView]
       ELSE [views |-> SubSeq(s, 2, Len(s)), ret |-> s[1]]

\* Pop: nil on an empty stack, else the last view, which is cut off.
Pop(s) ==
    IF Len(s) = 0
       THEN [views |-> s, ret |-> NilView]
       ELSE [views |-> SubSeq(s, 1, Len(s) - 1), ret |-> s[Len(s)]]

Current(s) == IF Len(s) = 0 THEN NilView ELSE s[Len(s)]

StackLen(s) == Len(s)

Breadcrumbs(s) == [k \in 1..Len(s) |-> s[k].title]

InitStackIdle ==
    /\ stack = <<>>
    /\ ret = NilView
    /\ op = "none"
    /\ pushed = <<>>
    /\ gone = {}
    /\ quitting = FALSE

\* NewViewStack()
InitStack == InitStackIdle

StackPush ==
    /\ Len(pushed) < MaxPushes
    /\ \E title \in Titles :
          /\ stack' = Push(stack, [title |-> title, id |-> Len(pushed) + 1])
          /\ pushed' = Append(pushed, title)
    /\ op' = "Push"
    /\ UNCHANGED <<ret, gone, quitting>>

StackPop ==
    /\ stack' = Pop(stack).views
    /\ ret' = Pop(stack).ret
    /\ gone' = IF Pop(stack).ret = NilView THEN gone
               ELSE gone \cup {Pop(stack).ret.id}
    /\ op' = "Pop"
    /\ UNCHANGED <<pushed, quitting>>

StackCurrent ==
    /\ ret' = Current(stack)
    /\ op' = "Current"
    /\ UNCHANGED <<stack, pushed, gone, quitting>>

NextStackPart == StackPush \/ StackPop \/ StackCurrent

(***************************************************************************)
(* The log viewport of the job-log popup.  A log is the number of its      *)
(* lines; the viewport is the bubbles viewport.Model the popup holds, with  *)
(* its line count and YOffset, at the fixed height the popup renders it.   *)
(* The popup stays open on one job; the user focuses either panel and       *)
(* moves the log cursor while the log is reloaded and refreshed.           *)
(***************************************************************************)
VARIABLES
    lines,              \* viewport.Model.lines, by their number
    YOffset,            \* viewport.Model.YOffset
    jobLogCursor

viewVars == <<lines, YOffset, jobLogCursor>>

MaxLines == 5           \* a log has 1..MaxLines lines
ViewportHeight == 2     \* logInnerHeight

\* Line counts of the logs GetJobLog answers with; 0 is the empty log "".
LogSizes == 0..MaxLines

\* viewport.Model, as functions of the line count n and the offset y.
maxYOffset(n) == IF n - ViewportHeight < 0 THEN 0 ELSE n - ViewportHeight

SetYOffset(n, y) ==
    IF y < 0 THEN 0 ELSE IF y > maxYOffset(n) THEN maxYOffset(n) ELSE y

GotoBottom(n) == SetYOffset(n, maxYOffset(n))

AtTop(y) == y <= 0

AtBottom(n, y) == y >= maxYOffset(n)

ScrollDown(n, y, k) ==
    IF AtBottom(n, y) \/ k = 0 \/ n = 0 THEN y ELSE SetYOffset(n, y + k)

ScrollUp(n, y, k) ==
    IF AtTop(y) \/ k = 0 \/ n = 0 THEN y ELSE SetYOffset(n, y - k)

\* ScrollPercent() >= 0.99, in hundredths.
wasAtBottom(n, y) ==
    IF ViewportHeight >= n THEN TRUE
    ELSE 100 * y >= 99 * (n - ViewportHeight)

\* Variant: a refreshed log always scrolls to the bottom.
RefreshedYOffsetBottom(n, focused, old, y) == GotoBottom(n)

\* The offset the jobLogRefreshedMsg case leaves for a fresh log of n lines,
\* the viewport holding old lines at offset y before.  Whatever SetContent
\* does to the offset, either branch then sets it outright.
RefreshedYOffset(n, focused, old, y) ==
    LET currentLine == y
    IN IF ~focused \/ wasAtBottom(old, y)
          THEN GotoBottom(n)
          ELSE SetYOffset(n, currentLine)

InitViewIdle ==
    /\ lines = 0
    /\ YOffset = 0
    /\ jobLogCursor = 0

\* The popup is open on job 1 of pipeline 1 and its log has been loaded and
\* rendered: renderJobLogPopup builds the viewport and goes to the bottom.
InitView ==
    /\ PipelinesShown({<<1>>})
    /\ showJobLogPopup = TRUE
    /\ currentPipelineID = 1
    /\ jobs = <<1>>
    /\ selectedJobIdx = 0
    /\ jobLog = 1
    /\ jobLogFocused = FALSE
    /\ lines \in 1..MaxLines
    /\ YOffset = GotoBottom(lines)
    /\ jobLogCursor = lines - 1

ViewHandled(msg) ==
    /\ lastMsg' = msg
    /\ UNCHANGED <<pipeVars, showJobLogPopup, currentPipelineID, jobs,
                   selectedJobIdx, jobLog, cmds, mergedFrom>>

\* case jobLogLoadedMsg, and the rendering that follows it: jobLogReady is
\* false, so the viewport is built anew and goes to the bottom.
ViewJobLogLoaded(n) ==
    /\ n > 0
    /\ lines' = n
    /\ YOffset' = GotoBottom(n)
    /\ jobLogCursor' = n - 1
    /\ ViewHandled("jobLogLoadedMsg")
    /\ UNCHANGED jobLogFocused

\* case jobLogRefreshedMsg
ViewJobLogRefreshed(n) ==
    /\ IF n # 0 /\ showJobLogPopup
          THEN /\ lines' = n
               /\ YOffset' = RefreshedYOffset(n, jobLogFocused, lines, YOffset)
          ELSE UNCHANGED <<lines, YOffset>>
    /\ ViewHandled("jobLogRefreshedMsg")
    /\ UNCHANGED <<jobLogCursor, jobLogFocused>>

\* handleJobLogPopup, L: the log panel gets the focus.
ViewKeyFocusLog ==
    /\ showJobLogPopup
    /\ jobLogFocused' = TRUE
    /\ ViewHandled("tea.KeyMsg")
    /\ UNCHANGED viewVars

\* handleJobLogPopup, H: the job list gets the focus.
ViewKeyFocusList ==
    /\ showJobLogPopup
    /\ jobLogFocused' = FALSE
    /\ ViewHandled("tea.KeyMsg")
    /\ UNCHANGED viewVars

\* handleJobLogPopup, j with the log focused: the cursor moves down and the
\* viewport follows it.
ViewKeyDown ==
    /\ showJobLogPopup
    /\ jobLogFocused
    /\ LET maxLine == lines - 1
           cursor == IF jobLogCursor < maxLine THEN jobLogCursor + 1
                     ELSE jobLogCursor
           viewportBottom == YOffset + ViewportHeight - 1
       IN /\ jobLogCursor' = cursor
          /\ YOffset' = IF cursor > viewportBottom
                           THEN ScrollDown(lines, YOffset, 1)
                           ELSE YOffset
    /\ ViewHandled("tea.KeyMsg")
    /\ UNCHANGED <<lines, jobLogFocused>>

\* handleJobLogPopup, k with the log focused.
ViewKeyUp ==
    /\ showJobLogPopup
    /\ jobLogFocused
    /\ LET cursor == IF jobLogCursor > 0 THEN jobLogCursor - 1
                     ELSE jobLogCursor
       IN /\ jobLogCursor' = cursor
          /\ YOffset' = IF cursor < YOffset
                           THEN ScrollUp(lines, YOffset, 1)
                           ELSE YOffset
    /\ ViewHandled("tea.KeyMsg")
    /\ UNCHANGED <<lines, jobLogFocused>>

\* handleJobLogPopup, G with the log focused.
ViewKeyBottom ==
    /\ showJobLogPopup
    /\ jobLogFocused
    /\ YOffset' = GotoBottom(lines)
    /\ jobLogCursor' = lines - 1
    /\ ViewHandled("tea.KeyMsg")
    /\ UNCHANGED <<lines, jobLogFocused>>

NextViewPart ==
    \/ \E n \in LogSizes : ViewJobLogLoaded(n)
    \/ \E n \in LogSizes : ViewJobLogRefreshed(n)
    \/ ViewKeyFocusLog
    \/ ViewKeyFocusList
    \/ ViewKeyDown
    \/ ViewKeyUp
    \/ ViewKeyBottom

(***************************************************************************)
(* The runners popup of MainScreen: the R key, handleRunnersPopup and the  *)
(* runnersLoadedMsg and runnersTickMsg cases of Update.  Not modelled: the *)
(* two job lists and the cursor in them.                                   *)
(***************************************************************************)
VARIABLES
    showRunnersPopup,
    runnersLoading,
    runnersTab

runVars == <<showRunnersPopup, runnersLoading, runnersTab>>

MaxRunnerCmds == 3      \* runners timers and fetches before the user waits

runnersTickCmd == Cmd("runnersTick", 0, 0)
loadAllJobs == Cmd("loadAllJobs", 0, 0)

RunnersCanDispatch ==
    Count("runnersTick") + Count("loadAllJobs") < MaxRunnerCmds

InitRunIdle ==
    /\ showRunnersPopup = FALSE
    /\ runnersLoading = FALSE
    /\ runnersTab = 0

\* A project is selected and no popup is open.
InitRunners ==
    /\ PipelinesShown({<<1>>})
    /\ InitJobIdle
    /\ InitRunIdle

\* handleKey, R with no popup open: the popup opens and the jobs are loaded.
KeyOpenRunners ==
    /\ ~showJobLogPopup
    /\ ~showRunnersPopup
    /\ RunnersCanDispatch
    /\ showRunnersPopup' = TRUE
    /\ runnersTab' = 0
    /\ runnersLoading' = TRUE
    /\ KeyHandled(loadAllJobs, contentTab)

\* handleRunnersPopup, q or Esc
KeyRunnersClose ==
    /\ ~showJobLogPopup
    /\ showRunnersPopup
    /\ showRunnersPopup' = FALSE
    /\ KeyHandled(NilCmd, contentTab)
    /\ UNCHANGED <<runnersLoading, runnersTab>>

\* handleRunnersPopup, Tab or Shift+Tab
KeyRunnersTab ==
    /\ ~showJobLogPopup
    /\ showRunnersPopup
    /\ runnersTab' = (runnersTab + 1) % 2
    /\ KeyHandled(NilCmd, contentTab)
    /\ UNCHANGED <<showRunnersPopup, runnersLoading>>

\* handleRunnersPopup, r: manual refresh
KeyRunnersRefresh ==
    /\ ~showJobLogPopup
    /\ showRunnersPopup
    /\ RunnersCanDispatch
    /\ runnersLoading' = TRUE
    /\ KeyHandled(loadAllJobs, contentTab)
    /\ UNCHANGED <<showRunnersPopup, runnersTab>>

\* case runnersLoadedMsg
MsgRunnersLoaded(c) ==
    /\ c.kind = "loadAllJobs"
    /\ runnersLoading' = FALSE
    /\ Deliver(c, "runnersLoadedMsg",
               IF showRunnersPopup THEN Batch({runnersTickCmd}) ELSE EmptyBag)
    /\ UNCHANGED <<showRunnersPopup, runnersTab>>

\* case runnersTickMsg
MsgRunnersTick(c) ==
    /\ c.kind = "runnersTick"
    /\ Deliver(c, "runnersTickMsg",
               IF showRunnersPopup THEN Batch({loadAllJobs}) ELSE EmptyBag)
    /\ UNCHANGED runVars

NextRunnersPart ==
    /\ UNCHANGED <<pipeVars, jobVars, mergedFrom>>
    /\ \/ KeyOpenRunners
       \/ KeyRunnersClose
       \/ KeyRunnersTab
       \/ KeyRunnersRefresh
       \/ \E c \in InFlightCmds : MsgRunnersLoaded(c)
       \/ \E c \in InFlightCmds : MsgRunnersTick(c)

(***************************************************************************)
(* App, the root model: New and Update on the view stack it owns.  The     *)
(* views are the ones of the stack part; a view answers a forwarded        *)
(* message with itself.  Not modelled: width, height and err.              *)
(***************************************************************************)
VARIABLES showHelp

appVars == <<showHelp>>

InitAppIdle == showHelp = FALSE

\* New(initialView)
InitApp ==
    /\ \E title \in Titles :
          /\ stack = Push(<<>>, [title |-> title, id |-> 1])
          /\ pushed = <<title>>
    /\ ret = NilView
    /\ op = "New"
    /\ gone = {}
    /\ quitting = FALSE
    /\ showHelp = FALSE

\* a.stack.Pop(), with its history.
AppPop ==
    /\ stack' = Pop(stack).views
    /\ ret' = Pop(stack).ret
    /\ gone' = IF Pop(stack).ret = NilView THEN gone
               ELSE gone \cup {Pop(stack).ret.id}

\* Pass message to current view: the view handed back replaces the current
\* one when it is a views.View (ok), and nothing happens on an empty stack.
ForwardToCurrent(ok) ==
    /\ stack' = IF Current(stack) # NilView /\ ok
                   THEN Push(Pop(stack).views, Current(stack))
                   ELSE stack
    /\ UNCHANGED <<ret, gone>>

\* case tea.KeyMsg, Quit: q or ctrl+c
AppKeyQuit ==
    /\ ~quitting
    /\ IF StackLen(stack) <= 1
          THEN quitting' = TRUE /\ UNCHANGED <<stack, ret, gone>>
          ELSE AppPop /\ UNCHANGED quitting
    /\ op' = "KeyQuit"
    /\ UNCHANGED <<pushed, showHelp>>

\* case tea.KeyMsg, Help: ?
AppKeyHelp ==
    /\ ~quitting
    /\ showHelp' = ~showHelp
    /\ op' = "KeyHelp"
    /\ UNCHANGED <<stack, ret, pushed, gone, quitting>>

\* case tea.KeyMsg, Back: esc or backspace; with one view left the key goes
\* to the view.
AppKeyBack ==
    /\ ~quitting
    /\ IF StackLen(stack) > 1
          THEN AppPop
          ELSE \E ok \in BOOLEAN : ForwardToCurrent(ok)
    /\ op' = "KeyBack"
    /\ UNCHANGED <<pushed, quitting, showHelp>>

\* case views.PushViewMsg
AppPushViewMsg ==
    /\ ~quitting
    /\ Len(pushed) < MaxPushes
    /\ StackLen(stack) < MaxDepth
    /\ \E title \in Titles :
          /\ stack' = Push(stack, [title |-> title, id |-> Len(pushed) + 1])
          /\ pushed' = Append(pushed, title)
    /\ op' = "PushViewMsg"
    /\ UNCHANGED <<ret, gone, quitting, showHelp>>

\* Variant: PopViewMsg pops whatever the depth.
AppPopViewMsgAlways ==
    /\ ~quitting
    /\ AppPop
    /\ op' = "PopViewMsg"
    /\ UNCHANGED <<pushed, quitting, showHelp>>

\* case views.PopViewMsg
AppPopViewMsg ==
    /\ ~quitting
    /\ IF StackLen(stack) > 1
          THEN AppPop
          ELSE UNCHANGED <<stack, ret, gone>>
    /\ op' = "PopViewMsg"
    /\ UNCHANGED <<pushed, quitting, showHelp>>

\* Any other key or message, tea.WindowSizeMsg included: it goes to the
\* current view.
AppForward ==
    /\ ~quitting
    /\ \E ok \in BOOLEAN : ForwardToCurrent(ok)
    /\ op' = "forward"
    /\ UNCHANGED <<pushed, quitting, showHelp>>

NextAppPart ==
    \/ AppKeyQuit
    \/ AppKeyHelp
    \/ AppKeyBack
    \/ AppPushViewMsg
    \/ AppPopViewMsg
    \/ AppForward

moreVars == <<stackVars, viewVars, runVars, appVars>>

InitMoreIdle ==
    InitStackIdle /\ InitViewIdle /\ InitRunIdle /\ InitAppIdle

vars == <<retryVars, enrichVars, uiVars, loopVars, extVars, moreVars>>

InitSpecRetry ==
    InitRetry /\ InitEnrichIdle /\ InitPipeIdle /\ InitJobIdle /\ InitLoopIdle
    /\ InitStatusIdle /\ InitReq /\ InitThreadsIdle /\ InitListIdle
    /\ InitMoreIdle

NextSpecRetry ==
    NextRetryWirePart
        /\ UNCHANGED <<enrichVars, uiVars, loopVars, statusVars, threadVars,
                       listVars, moreVars>>

SpecRetry == InitSpecRetry /\ [][NextSpecRetry]_vars

InitSpecEnrich ==
    InitRetryIdle /\ InitEnrich /\ InitPipeIdle /\ InitJobIdle /\ InitLoopIdle
    /\ InitExtIdle /\ InitMoreIdle

NextSpecEnrich ==
    NextEnrichPart /\ UNCHANGED <<retryVars, uiVars, loopVars, extVars, moreVars>>

SpecEnrich == InitSpecEnrich /\ [][NextSpecEnrich]_vars

Init ==
    InitRetryIdle /\ InitEnrichIdle /\ InitPipe /\ InitJobIdle /\ InitLoopIdle
    /\ InitExtIdle /\ InitMoreIdle

Next == NextPipePart /\ UNCHANGED <<retryVars, enrichVars, loopVars, extVars, moreVars>>

Spec == Init /\ [][Next]_vars

InitSpecMerge ==
    InitRetryIdle /\ InitEnrichIdle /\ InitMerge /\ InitJobIdle /\ InitLoopIdle
    /\ InitExtIdle /\ InitMoreIdle

NextSpecMerge ==
    NextMergePart /\ UNCHANGED <<retryVars, enrichVars, loopVars, extVars, moreVars>>

SpecMerge == InitSpecMerge /\ [][NextSpecMerge]_vars

InitSpecJobLog ==
    InitRetryIdle /\ InitEnrichIdle /\ InitJobLog /\ InitJobIdle /\ InitLoopIdle
    /\ InitExtIdle /\ InitMoreIdle

NextSpecJobLog ==
    NextJobLogPart /\ UNCHANGED <<retryVars, enrichVars, loopVars, extVars, moreVars>>

InitSpecPopup ==
    InitRetryIdle /\ InitEnrichIdle /\ InitPopup /\ InitJobIdle /\ InitLoopIdle
    /\ InitExtIdle /\ InitMoreIdle

NextSpecPopup ==
    NextPopupPart /\ UNCHANGED <<retryVars, enrichVars, loopVars, extVars, moreVars>>

SpecPopup == InitSpecPopup /\ [][NextSpecPopup]_vars

InitSpecLoop ==
    InitRetryIdle /\ InitEnrichIdle /\ InitMerge /\ InitJobIdle /\ InitLoopIdle
    /\ InitExtIdle /\ InitMoreIdle

NextSpecLoop ==
    NextLoopPart /\ UNCHANGED <<retryVars, enrichVars, extVars, moreVars>>

SpecLoop == InitSpecLoop /\ [][NextSpecLoop]_vars

InitSpecEnrichLive == InitSpecEnrich

NextSpecEnrichLive ==
    NextEnrichLivePart /\ UNCHANGED <<retryVars, uiVars, loopVars, extVars, moreVars>>

\* The enrichment pass under the scheduling the Go runtime gives: a runnable
\* goroutine is eventually run, and (the premise of termination) a lookup
\* that was started eventually returns.
SpecEnrichLive ==
    InitSpecEnrichLive /\ [][NextSpecEnrichLive]_vars
        /\ WF_vars(NextSpecEnrichLive)

InitSpecStatus ==
    /\ InitRetryIdle /\ InitEnrichIdle /\ InitPipeIdle /\ InitJobIdle
    /\ InitLoopIdle /\ InitStatus /\ InitReqIdle /\ InitThreadsIdle
    /\ InitListIdle /\ InitMoreIdle

NextSpecStatus ==
    NextStatusPart
        /\ UNCHANGED <<retryVars, enrichVars, uiVars, loopVars, reqVars,
                       threadVars, listVars, moreVars>>

SpecStatus == InitSpecStatus /\ [][NextSpecStatus]_vars

InitSpecThreads ==
    /\ InitRetryIdle /\ InitEnrichIdle /\ InitPipeIdle /\ InitJobIdle
    /\ InitLoopIdle /\ InitStatusIdle /\ InitReqIdle /\ InitThreads
    /\ InitListIdle /\ InitMoreIdle

NextSpecThreads ==
    NextThreadsPart
        /\ UNCHANGED <<retryVars, enrichVars, uiVars, loopVars, statusVars,
                       reqVars, listVars, moreVars>>

SpecThreads == InitSpecThreads /\ [][NextSpecThreads]_vars

InitSpecList ==
    /\ InitRetryIdle /\ InitEnrichIdle /\ InitPipeIdle /\ InitJobIdle
    /\ InitLoopIdle /\ InitStatusIdle /\ InitReqIdle /\ InitThreadsIdle
    /\ InitList /\ InitMoreIdle

NextSpecList ==
    NextListPart
        /\ UNCHANGED <<retryVars, enrichVars, uiVars, loopVars, statusVars,
                       reqVars, threadVars, moreVars>>

SpecList == InitSpecList /\ [][NextSpecList]_vars

InitSpecTick ==
    InitRetryIdle /\ InitEnrichIdle /\ InitTick /\ InitJobIdle /\ InitLoopIdle
    /\ InitExtIdle /\ InitMoreIdle

NextSpecTick ==
    NextTickPart
        /\ UNCHANGED <<retryVars, enrichVars, loopVars, extVars, moreVars>>

SpecTick == InitSpecTick /\ [][NextSpecTick]_vars

InitSpecStack ==
    /\ InitRetryIdle /\ InitEnrichIdle /\ InitPipeIdle /\ InitJobIdle
    /\ InitLoopIdle /\ InitExtIdle /\ InitStack /\ InitViewIdle /\ InitRunIdle
    /\ InitAppIdle

NextSpecStack ==
    NextStackPart
        /\ UNCHANGED <<retryVars, enrichVars, uiVars, loopVars, extVars,
                       viewVars, runVars, appVars>>

SpecStack == InitSpecStack /\ [][NextSpecStack]_vars

InitSpecView ==
    /\ InitRetryIdle /\ InitEnrichIdle /\ InitView /\ InitLoopIdle
    /\ InitExtIdle /\ InitStackIdle /\ InitRunIdle /\ InitAppIdle

NextSpecView ==
    NextViewPart
        /\ UNCHANGED <<retryVars, enrichVars, loopVars, extVars, stackVars,
                       runVars, appVars>>

SpecView == InitSpecView /\ [][NextSpecView]_vars

InitSpecRunners ==
    /\ InitRetryIdle /\ InitEnrichIdle /\ InitRunners /\ InitLoopIdle
    /\ InitExtIdle /\ InitStackIdle /\ InitViewIdle /\ InitAppIdle

NextSpecRunners ==
    NextRunnersPart
        /\ UNCHANGED <<retryVars, enrichVars, loopVars, extVars, stackVars,
                       viewVars, appVars>>

SpecRunners == InitSpecRunners /\ [][NextSpecRunners]_vars

InitSpecApp ==
    /\ InitRetryIdle /\ InitEnrichIdle /\ InitPipeIdle /\ InitJobIdle
    /\ InitLoopIdle /\ InitExtIdle /\ InitViewIdle /\ InitRunIdle /\ InitApp

NextSpecApp ==
    NextAppPart
        /\ UNCHANGED <<retryVars, enrichVars, uiVars, loopVars, extVars,
                       viewVars, runVars>>

SpecApp == InitSpecApp /\ [][NextSpecApp]_vars

SpecJobLog == InitSpecJobLog /\ [][NextSpecJobLog]_vars


(***************************************************************************)
(* Properties.                                                             *)
(***************************************************************************)
Range(q) == {q[k] : k \in DOMAIN q}
IndexOf(q, x) == Min({k \in DOMAIN q : q[k] = x}) - 1

\* C1 (as claimed): a pipelinesRefreshedMsg whose refreshPipelines was in
\* flight when the user left the Pipelines view changes none of pipelines,
\* selectedContent and fileScrollOffset.
C1_StaleRefreshAltersNothing ==
    [][\A c \in InFlightCmds :
          (/\ c.kind = "refreshPipelines"
           /\ c.left
           /\ lastMsg' = "pipelinesRefreshedMsg"
           /\ cmds' = (cmds (-) SetToBag({c})) (+) Batch({pipelineTickCmd}))
          => UNCHANGED <<pipelines, selectedContent, fileScrollOffset>>]_vars

\* C2 (as claimed): the armed pipeline timers and the pipeline refresh
\* fetches in flight are never more than one together.
C2_OnePipelineLoop ==
    Count("pipelineTick") + Count("refreshPipelines") <= 1

\* C3 (as claimed): right after a refresh fetch has failed a pipeline timer
\* is armed, so that a later tick fires.
C3_TimerArmedAfterFailedRefresh ==
    lastMsg = "nil" => Count("pipelineTick") >= 1

\* C4 (as claimed): in the pipeline loop and in the job-log loop no timer is
\* armed while a refresh fetch of the loop is in flight, and no two refresh
\* fetches of one loop are in flight together.
C4_TicksSequential ==
    /\ Count("refreshPipelines") + Count("pipelineTick") <= 1
    /\ Count("refreshJobLog") + Count("jobLogTick") <= 1

\* The state is the one a pipelinesRefreshedMsg left, and pipeline X was
\* selected at index mergedFrom.selectedContent when it arrived.
MergedWithSelection ==
    /\ lastMsg = "pipelinesRefreshedMsg"
    /\ mergedFrom.selectedContent < Len(mergedFrom.pipelines)
SelectedBefore == mergedFrom.pipelines[mergedFrom.selectedContent + 1]

\* C5: after a merge made while pipeline X was selected, if the fresh list
\* contains X at index j then selectedContent = j.
C5_SelectionFollowsPipeline ==
    (MergedWithSelection /\ SelectedBefore \in Range(pipelines))
        => /\ selectedContent = IndexOf(pipelines, SelectedBefore)
           /\ pipelines[selectedContent + 1] = SelectedBefore

\* C5 witness: a merge moved the selected pipeline to another index and the
\* selection went with it.
C5_Witness ==
    /\ MergedWithSelection
    /\ SelectedBefore \in Range(pipelines)
    /\ IndexOf(pipelines, SelectedBefore) # mergedFrom.selectedContent
    /\ selectedContent = IndexOf(pipelines, SelectedBefore)

\* The fresh list is shorter than the old one and lacks the selected pipeline.
ShrunkWithoutSelected ==
    /\ MergedWithSelection
    /\ Len(pipelines) < Len(mergedFrom.pipelines)
    /\ SelectedBefore \notin Range(pipelines)

\* C6 (as claimed): after a merge whose fresh list is shorter and lacks the
\* selected pipeline, selectedContent = len(fresh list) - 1.
C6_ClampedToLast ==
    ShrunkWithoutSelected => selectedContent = Len(pipelines) - 1

\* C6 (amended): after such a merge the selection stays at its index i when
\* i is still valid and is len(fresh list) - 1 otherwise; with an empty
\* fresh list it stays i.
C6_ClampedIntoRange ==
    ShrunkWithoutSelected =>
        selectedContent =
            IF Len(pipelines) > 0 /\ mergedFrom.selectedContent >= Len(pipelines)
               THEN Len(pipelines) - 1
               ELSE mergedFrom.selectedContent

\* C6 witness: the selection was beyond the end of the shorter list and was
\* clamped to its last index.
C6_Witness ==
    /\ ShrunkWithoutSelected
    /\ Len(pipelines) > 0
    /\ mergedFrom.selectedContent >= Len(pipelines)
    /\ selectedContent = Len(pipelines) - 1

\* The first n attempts of doWithRetry all ended in a retryable failure.
Retryable(o) == o.err \/ isRetryableStatus(o.status)
FirstFailed(n) ==
    /\ Len(outcomes) >= n
    /\ \A k \in 1..n : Retryable(outcomes[k])

\* C7 (as claimed): once MaxRetries consecutive retryable failures have
\* occurred, get returns an error after exactly MaxRetries + 1 attempts.
C7_ErrorAfterBudgetFailures ==
    (rpc = "done" /\ FirstFailed(MaxRetries))
        => getErr # NoErr /\ Len(outcomes) = MaxRetries + 1

\* C7 (amended): with MaxRetries + 1 consecutive retryable failures get
\* returns an error after exactly MaxRetries + 1 attempts; no call makes
\* more, and a call whose attempts all failed does not stop earlier.
C7_RetryBound ==
    /\ Len(outcomes) <= MaxRetries + 1
    /\ (rpc = "done" /\ FirstFailed(Len(outcomes)))
          => /\ Len(outcomes) = MaxRetries + 1
             /\ getErr # NoErr
             /\ resp = NilResp

\* C7 witness: the call is over after four retryable failures.
C7_Witness ==
    /\ rpc = "done"
    /\ FirstFailed(MaxRetries + 1)
    /\ getErr = lastErr
    /\ getErr # NoErr

ClientError(o) == ~o.err /\ o.status \in {401, 404}

\* C8: when the first response is 404 or 401 there is one attempt, no sleep,
\* and get returns an error that embeds the status.
C8_NoRetryOnClientError ==
    (Len(outcomes) >= 1 /\ ClientError(outcomes[1]))
        => /\ Len(outcomes) = 1
           /\ sleeps = <<>>
           /\ rpc \in {"returned", "done"}
           /\ rpc = "done" =>
                 getErr # NoErr /\ getErr.status = outcomes[1].status

\* C8 witness: get has returned after a single 404.
C8_Witness ==
    /\ rpc = "done"
    /\ outcomes = <<[err |-> FALSE, status |-> 404]>>
    /\ getErr = ApiError(404)

\* C9: never more than SemCap lookups are in flight.
C9_BoundedConcurrency == Cardinality(InFlight) <= SemCap

\* C9 witness: SemCap lookups are in flight and a further worker waits for
\* the semaphore.
C9_Witness ==
    /\ Cardinality(InFlight) = SemCap
    /\ \E k \in DOMAIN wpc : wpc[k] = "acquire"

\* C10: when the load command is over after an enrichment, it has returned
\* projectContentMsg, the entries are the ones of the tree in their order,
\* those whose lookup failed without a commit and the others with theirs.
C10_EnrichmentResilient ==
    (lpc = "done" /\ Len(wpc) > 0)
        => /\ loadMsg = "projectContentMsg"
           /\ Len(entries) = Len(wpc)
           /\ \A k \in DOMAIN entries :
                 /\ entries[k].Path = k
                 /\ entries[k].LastCommit = IF k \in failing THEN 0 ELSE k

\* C10 witness: a load is over in which some lookups failed and some did not.
C10_Witness ==
    /\ lpc = "done"
    /\ loadMsg = "projectContentMsg"
    /\ failing # {}
    /\ \E k \in DOMAIN entries : k \notin failing /\ entries[k].LastCommit = k
    /\ \E k \in DOMAIN entries : k \in failing /\ entries[k].LastCommit = 0

\* C11 (as claimed): while the job-log popup is open at most one job-log
\* timer is armed.
C11_OneJobLogLoop ==
    showJobLogPopup => Count("jobLogTick") <= 1

C13_ClosedPopupDiscardsLoad ==
    [][(~showJobLogPopup /\ lastMsg' \in {"jobsLoadedMsg", "jobLogLoadedMsg"})
          => /\ UNCHANGED <<jobs, jobLog, loading>>
             /\ cmds' \sqsubseteq cmds]_vars

\* The command c has just returned msg and Update handed back the commands new.
Delivered(c, msg, new) ==
    /\ lastMsg' = msg
    /\ cmds' = (cmds (-) SetToBag({c})) (+) new

\* C14 (as claimed): the result of a superseded load is dropped on arrival.
\* A projectContentMsg of a project other than the selected one leaves files
\* as they are, and a jobLogLoadedMsg of a job other than the selected one
\* leaves jobLog as it is.
C14_StaleResultDropped ==
    [][\A c \in InFlightCmds :
          /\ (/\ c.kind = "loadProjectContent"
              /\ c.project # selectedProject
              /\ Delivered(c, "projectContentMsg", EmptyBag))
                => UNCHANGED files
          /\ (/\ c.kind = "loadJobLog"
              /\ showJobLogPopup
              /\ selectedJobIdx < Len(jobs)
              /\ c.arg # jobs[selectedJobIdx + 1]
              /\ Delivered(c, "jobLogLoadedMsg", Batch({jobLogTickCmd})))
                => UNCHANGED jobLog]_vars

\* C15: with an idle user and every refresh succeeding, once the timer has
\* fired n times and the fetch of the last tick has been handled, exactly n
\* merges have occurred and exactly one timer is armed (n = 3 included).
C15_MergePerTick ==
    /\ Count("pipelineTick") + Count("refreshPipelines") = 1
    /\ merges = ticks - Count("refreshPipelines")
    /\ (ticks = 3 /\ Count("refreshPipelines") = 0)
          => merges = 3 /\ Count("pipelineTick") = 1

\* C15 witness: the timer has fired three times, three merges were applied
\* and one timer is armed.
C15_Witness ==
    /\ ticks = 3
    /\ merges = 3
    /\ lastMsg = "pipelinesRefreshedMsg"
    /\ Count("pipelineTick") = 1
    /\ Count("refreshPipelines") = 0

RefreshKinds == {"refreshPipelines", "refreshJobs", "refreshJobLog"}

\* C16: a background refresh fetch that returns never brings errMsg to
\* Update, and when it has failed (the command returned nil) lastError,
\* loading, pipelines, the selection, jobs and jobLog are as before.
C16_RefreshFailureInvisible ==
    [][/\ \A c \in InFlightCmds :
             (c.kind \in RefreshKinds /\ CopiesIn(c, cmds') < CopiesIn(c, cmds))
                => lastMsg' \in {"nil", "pipelinesRefreshedMsg",
                                 "jobsRefreshedMsg", "jobLogRefreshedMsg"}
       /\ lastMsg' = "nil"
             => UNCHANGED <<lastError, loading, pipelines, selectedContent,
                            jobs, selectedJobIdx, jobLog, showJobLogPopup>>]_vars

\* C16 witness: a refresh has just failed while a pipeline list and, in the
\* open popup, jobs and a log are displayed with no error shown.
C16_Witness ==
    /\ lastMsg = "nil"
    /\ lastError = ""
    /\ pipelines # <<>>
    /\ showJobLogPopup
    /\ jobs # <<>>
    /\ jobLog # 0

\* handleKey reaches the retry case: no popup takes the key, an error is
\* shown and a command to retry is kept.
RetryAvailable ==
    /\ ~showJobLogPopup
    /\ lastError # ""
    /\ retryCmd # NilCmd

\* C17 (as claimed): an errMsg sets lastError and clears loading, leaves the
\* lists, the selections and the popup as they are, and leaves the retry key
\* available.
C17_ErrorSurfacedAndRetryable ==
    [][lastMsg' = "errMsg" =>
         /\ lastError' # ""
         /\ loading' = FALSE
         /\ UNCHANGED <<files, mergeRequests, pipelines, releases, jobs, jobLog,
                        selectedContent, selectedJobIdx, selectedProject,
                        contentTab, showJobLogPopup>>
         /\ RetryAvailable']_vars

\* C18 (as claimed): when the failure of a fetch puts up the error, the
\* command that r re-issues (retryCmd) is that fetch.
C18_RetryReissuesFailedFetch ==
    [][\A c \in InFlightCmds :
          (c.kind \in ErrKinds /\ Delivered(c, "errMsg", EmptyBag))
             => retryCmd' = c]_vars

RECURSIVE Pow2(_)
Pow2(n) == IF n = 0 THEN 1 ELSE 2 * Pow2(n - 1)

\* min(InitialBackoff * 2^(k-1), MaxBackoff)
ExpectedWait(k) ==
    IF InitialBackoff * Pow2(k - 1) > MaxBackoff
       THEN MaxBackoff ELSE InitialBackoff * Pow2(k - 1)

\* C19: doWithRetry has slept once per retry and not before the first
\* attempt; the k-th sleep lasted min(InitialBackoff * 2^(k-1), MaxBackoff),
\* and none lasted longer than MaxBackoff.
C19_ExponentialBackoff ==
    /\ Len(sleeps) = IF rpc = "do" THEN Len(outcomes)
                     ELSE IF Len(outcomes) = 0 THEN 0 ELSE Len(outcomes) - 1
    /\ \A k \in DOMAIN sleeps :
          /\ sleeps[k] = ExpectedWait(k)
          /\ sleeps[k] <= MaxBackoff
    /\ Len(sleeps) <= MaxRetries

\* C19 witness: the budget was used up with waits of 500 ms, 1 s and 2 s.
C19_Witness ==
    /\ rpc = "done"
    /\ Len(outcomes) = MaxRetries + 1
    /\ sleeps = <<500, 1000, 2000>>

\* The budget is used up: MaxRetries + 1 attempts were made and the last one
\* failed too.
Exhausted ==
    /\ rpc = "done"
    /\ Len(outcomes) = MaxRetries + 1
    /\ Retryable(outcomes[MaxRetries + 1])

\* C20: when the budget is used up the response is nil and the error is the
\* one of the last attempt, with the attempt count 4 of 4 embedded.
C20_LastErrorReturned ==
    Exhausted =>
        LET last == outcomes[MaxRetries + 1]
        IN /\ resp = NilResp
           /\ getErr = IF last.err THEN RequestFailed(MaxRetries)
                       ELSE ApiErrorAttempt(last.status, MaxRetries)
           /\ getErr.attempt = 4
           /\ getErr.of = 4

\* C20 witness: the budget was used up by a transport error and two 500 and
\* then a 429, and the error returned is the one of the 429.
C20_Witness ==
    /\ Exhausted
    /\ outcomes[1].err
    /\ outcomes[2].status = 500
    /\ outcomes[3].status = 500
    /\ outcomes[4].status = 429
    /\ getErr = ApiErrorAttempt(429, 3)

(***************************************************************************)
(* Claims C21..C30                                                         *)
(***************************************************************************)

ServerErrorClass == 500..599

AllResolved == \A k \in DOMAIN wpc : wpc[k] = "done"

FetchLastCommitsReturned == lpc \in {"readme", "done"}

\* C22: fetchLastCommits returns only after every dispatched per-entry
\* operation has resolved, and for every number of entries it does return:
\* neither the semaphore nor the wait group leaves it blocked.
C22_ReturnsAfterAllAndAlways ==
    /\ [](FetchLastCommitsReturned => AllResolved /\ wg = 0 /\ sem = 0)
    /\ <>(lpc = "done")

C22_Witness ==
    /\ lpc = "done"
    /\ loadMsg = "projectContentMsg"
    /\ Len(entries) > SemCap
    /\ AllResolved

Pending == {k \in DOMAIN wpc : wpc[k] = "acquire"}

NotSpawned == {k \in DOMAIN wpc : wpc[k] = "none"}

\* C23: the enrichment is a sliding window.  The tokens in sem count the
\* lookups in flight; whenever fewer than SemCap lookups are in flight, every
\* worker waiting at the semaphore can pass it in the very next step and the
\* spawning loop can start the next entry that has no worker yet, whether or
\* not other lookups of the window are still running.
C23_SlidingWindow ==
    /\ sem = Cardinality(InFlight)
    /\ Cardinality(InFlight) < SemCap =>
          /\ \A k \in Pending : ENABLED WorkerAcquire(k)
          /\ NotSpawned # {} => ENABLED Spawn

\* A lookup has finished while the window was full: others are still in
\* flight and a worker is waiting for the slot.
C23_Witness ==
    /\ Cardinality(InFlight) = SemCap - 1
    /\ Pending # {}
    /\ \E k \in DOMAIN wpc : wpc[k] = "done"

MaxOffset == IF Len(pipelines) > 0 THEN Len(pipelines) - 1 ELSE 0

\* C25: a pipeline refresh merge clamps fileScrollOffset when the fresh list
\* is shorter than the offset, so that right after every merge
\* fileScrollOffset <= max(0, len(pipelines) - 1).
C25_ScrollOffsetWithinList ==
    lastMsg = "pipelinesRefreshedMsg" => fileScrollOffset <= MaxOffset

\* C26: a pipeline refresh merge replaces the list wholesale: right after it
\* pipelines is the list the message carried, element for element in the
\* same order, and no old entry absent from that list remains.
C26_ListReplacedWholesale ==
    lastMsg = "pipelinesRefreshedMsg" =>
        /\ pipelines = mergedFrom.fresh
        /\ \A x \in Range(mergedFrom.pipelines) \ Range(mergedFrom.fresh) :
               x \notin Range(pipelines)

\* C26 witness: the fresh list dropped an old pipeline and brought a new one.
C26_Witness ==
    /\ lastMsg = "pipelinesRefreshedMsg"
    /\ Range(mergedFrom.pipelines) \ Range(mergedFrom.fresh) # {}
    /\ Range(mergedFrom.fresh) \ Range(mergedFrom.pipelines) # {}
    /\ pipelines = mergedFrom.fresh

\* C27: the client is read-only: every request that goes on the wire, the
\* first attempt and every retry of it, is a GET; none is a POST, PUT, PATCH
\* or DELETE.
C27_OnlyGetOnTheWire ==
    /\ \A k \in DOMAIN wire : wire[k] = "GET"
    /\ Len(wire) = Len(outcomes)

\* C27 witness: a job-log request was retried to exhaustion.
C27_Witness ==
    /\ rpc = "done"
    /\ req.op = "GetJobLog"
    /\ Len(wire) = MaxRetries + 1
    /\ \A k \in DOMAIN wire : wire[k] = "GET"

\* Two accesses of one field by different threads overlap and one writes.
DataRace ==
    \E a, b \in acc : a.by # b.by /\ a.field = b.field /\ (a.write \/ b.write)

C29_ListReturnsWholeCollection ==
    listPc = "done" => listResult = remote

ErrorClasses ==
    {"NotFound", "Unauthorized", "RateLimited", "ServerUnavailable",
     "Malformed"}

\* The class the taxonomy gives a failure of get.
ClassOf(e) ==
    CASE e.text = "decoding response" -> "Malformed"
      [] e.text = "request failed (attempt %d/%d)" -> "ServerUnavailable"
      [] e.status = 404 -> "NotFound"
      [] e.status = 401 -> "Unauthorized"
      [] e.status = 429 -> "RateLimited"
      [] OTHER -> "ServerUnavailable"

\* C30: every failure a client operation returns is a typed error of exactly
\* one of the classes NotFound, Unauthorized, RateLimited, ServerUnavailable
\* and Malformed, the one its cause belongs to.
C30_FailureIsClassified ==
    (rpc = "done" /\ getErr # NoErr) =>
        /\ ErrorType(getErr) \in ErrorClasses
        /\ ErrorType(getErr) = ClassOf(getErr)

(***************************************************************************)
(* Claims C31..C39                                                         *)
(***************************************************************************)

\* The pushes not popped so far, in push order.
Remaining == SelectSeq([k \in 1..Len(pushed) |-> k], LAMBDA k : k \notin gone)

\* C31: ViewStack is a last-in-first-out stack.  A Pop that returns a view
\* returns the most recently pushed one not yet popped; Len is pushes minus
\* successful pops; Breadcrumbs lists the remaining titles in push order;
\* Pop or Current on an empty stack returns nil and Len stays 0.
C31_ViewStackIsLifo ==
    /\ (op = "Pop" /\ ret # NilView) =>
           /\ ret.id \in gone
           /\ \A k \in Range(Remaining) : k < ret.id
    /\ StackLen(stack) = Len(pushed) - Cardinality(gone)
    /\ Breadcrumbs(stack) = [k \in 1..Len(Remaining) |-> pushed[Remaining[k]]]
    /\ (op \in {"Pop", "Current"} /\ ret = NilView) => StackLen(stack) = 0
    /\ (op = "Current" /\ ret # NilView) => ret = stack[Len(stack)]

\* C31 witness: after pushes, a pop and a further push, Pop returned the
\* latest view while older ones remain.
C31_Witness ==
    /\ op = "Pop"
    /\ ret # NilView
    /\ gone # {ret.id}
    /\ StackLen(stack) >= 2
    /\ Breadcrumbs(stack) = <<"Groups", "Projects">>

\* C32: a refresh fetch is dispatched only while its view is live.  A step
\* that adds a refreshPipelines command is the handling of a pipeline tick
\* with the Pipelines tab active, a project selected and loading false; a
\* step that adds a refreshJobs or a refreshJobLog command is the handling of
\* a job-log tick with the job-log popup open.
C32_RefreshOnlyWhileLive ==
    [][ /\ Count("refreshPipelines")' > Count("refreshPipelines") =>
              /\ lastMsg' = "pipelineTickMsg"
              /\ contentTab = TabPipelines
              /\ selectedProject # 0
              /\ ~loading
        /\ (\/ Count("refreshJobs")' > Count("refreshJobs")
            \/ Count("refreshJobLog")' > Count("refreshJobLog")) =>
              /\ lastMsg' = "jobLogTickMsg"
              /\ showJobLogPopup
      ]_vars

\* C32 witness: a pipeline tick was handled away from the Pipelines tab and,
\* the popup being closed, no refresh of either kind is under way.
C32_Witness ==
    /\ lastMsg = "pipelineTickMsg"
    /\ contentTab # TabPipelines
    /\ selectedProject # 0
    /\ ~showJobLogPopup
    /\ Count("refreshPipelines") = 0
    /\ Count("pipelineTick") >= 1

\* A jobsRefreshedMsg is applied with the popup open while a job is selected.
JobsMergeStep ==
    /\ lastMsg' = "jobsRefreshedMsg"
    /\ Count("refreshJobs")' < Count("refreshJobs")
    /\ showJobLogPopup
    /\ selectedJobIdx >= 0
    /\ selectedJobIdx < Len(jobs)

\* C33: on a jobsRefreshedMsg applied while the popup is open, if the job
\* selected before the merge is in the fresh list at index j, then
\* selectedJobIdx = j afterwards.
C33_JobSelectionFollowsJob ==
    [][ (JobsMergeStep /\ jobs[selectedJobIdx + 1] \in Range(jobs')) =>
            /\ selectedJobIdx' = IndexOf(jobs', jobs[selectedJobIdx + 1])
            /\ jobs'[selectedJobIdx' + 1] = jobs[selectedJobIdx + 1]
      ]_vars

\* C33 witness: a jobsRefreshedMsg has just been applied with the popup open
\* and left job 1 selected at index 1 of the fresh list <<2, 1>>.
C33_Witness ==
    /\ showJobLogPopup
    /\ lastMsg = "jobsRefreshedMsg"
    /\ jobs = <<2, 1>>
    /\ selectedJobIdx = 1

\* A step that handles a jobLogRefreshedMsg with the popup open.
LogRefreshStep ==
    /\ lastMsg' = "jobLogRefreshedMsg"
    /\ showJobLogPopup

C35_JobIndexInRange ==
    jobs # <<>> => (0 <= selectedJobIdx /\ selectedJobIdx < Len(jobs))

\* The state right after a pipelinesRefreshedMsg handled on the Pipelines tab.
MergedOnPipelinesTab ==
    /\ lastMsg = "pipelinesRefreshedMsg"
    /\ contentTab = TabPipelines

\* C36 as stated: after a pipelinesRefreshedMsg handled on the Pipelines tab
\* selectedContent is an index of the fresh list, or 0 when that list is
\* empty: 0 <= selectedContent < max(1, len(pipelines)).
C36_SelectionValidOrZero ==
    MergedOnPipelinesTab =>
        /\ 0 <= selectedContent
        /\ selectedContent < (IF Len(pipelines) > 1 THEN Len(pipelines) ELSE 1)

\* C36: after a pipelinesRefreshedMsg handled on the Pipelines tab
\* selectedContent is an index of the fresh list when that list is not
\* empty; when it is empty selectedContent is what it was before the message.
C36_SelectionValidOrKept ==
    MergedOnPipelinesTab =>
        IF pipelines # <<>>
           THEN 0 <= selectedContent /\ selectedContent < Len(pipelines)
           ELSE selectedContent = mergedFrom.selectedContent

\* C36 witness: the fresh list is empty and the selection stays on index 1
\* of the two pipelines shown before.
C36_Witness ==
    /\ MergedOnPipelinesTab
    /\ pipelines = <<>>
    /\ Len(mergedFrom.pipelines) = 2
    /\ mergedFrom.selectedContent = 1
    /\ selectedContent = 1

\* C37 (as claimed): while the runners popup is open the armed runners
\* timers and the loadAllJobs fetches in flight are never more than one
\* together.
C37_OneRunnersLoop ==
    showRunnersPopup => Count("runnersTick") + Count("loadAllJobs") <= 1

\* The worker of entry k returns in this step.
WorkerReturns(k) == wpc[k] = "call" /\ wpc'[k] = "done"

\* C38: during fetchLastCommits an entry changes only in the step in which
\* its own worker returns, and then only in its LastCommit; a worker that
\* returns leaves every other entry as it is; and wg.Wait() lets the caller
\* go on to use the entries only when every worker has returned.
C38_WorkersWriteOwnEntry ==
    [][ /\ lpc \in {"spawn", "wait"} =>
              /\ DOMAIN entries' = DOMAIN entries
              /\ \A k \in DOMAIN entries :
                    /\ entries'[k] # entries[k] =>
                          /\ WorkerReturns(k)
                          /\ entries'[k].Path = entries[k].Path
                    /\ WorkerReturns(k) =>
                          \A o \in DOMAIN entries \ {k} : entries'[o] = entries[o]
        /\ (lpc = "wait" /\ lpc' # "wait") =>
              /\ AllResolved
              /\ entries' = entries
      ]_vars

\* C38 witness: two workers have stored the commit of their own entry while
\* a third lookup is still in flight and the caller waits.
C38_Witness ==
    /\ lpc = "wait"
    /\ \E a, b, c \in DOMAIN wpc :
          /\ a # b
          /\ wpc[a] = "done" /\ entries[a].LastCommit = a
          /\ wpc[b] = "done" /\ entries[b].LastCommit = b
          /\ wpc[c] = "call"

\* C39: the App view stack always holds a view, and App.Update returns
\* tea.Quit only for the quit key handled with at most one view on the stack.
C39_StackNeverEmpty ==
    /\ [](StackLen(stack) >= 1)
    /\ [][ (quitting' /\ ~quitting) =>
               /\ op' = "KeyQuit"
               /\ StackLen(stack) <= 1
               /\ stack' = stack
         ]_vars

\* C39 witness: views were pushed and popped again down to the last one, the
\* quit key was pressed there and the program quits with that view in place.
C39_Witness ==
    /\ quitting
    /\ op = "KeyQuit"
    /\ StackLen(stack) = 1
    /\ Len(pushed) >= 3
    /\ gone # {}

====
